---- MODULE Spec2Model ----
(***************************************************************************)
(* State-machine model of class Model of src/game_of_life.py: the cell     *)
(* state grid of Conway's Game of Life with optional edge wrapping, trace  *)
(* fading, resizing and direct cell edits.                                 *)
(*                                                                         *)
(* A Python list is a TLA+ sequence, so the cell the code writes as        *)
(* cell_states[row][col] (0-based) is cell_states[row + 1][col + 1] here.  *)
(***************************************************************************)
EXTENDS Integers, Sequences, FiniteSets, TLC

\* Bounds of the model: the largest grid, the largest live_state handed to
\* the constructor and the longest coordinate list handed to set_cells_state.
MaxRows == 2
MaxCols == 2
MaxLiveState == 4
MaxCells == 2

\* Bounds of the second specification (SpecLife): its largest grid.
LifeRows == 3
LifeCols == 3

\* Bounds of the third specification (SpecBlock): its largest grid.
BlockMaxRows == 5
BlockMaxCols == 5

\* Bounds of the specifications with the Controller and the View: the
\* widest cell and the widest canvas in scaled pixels, the live_state the
\* Controller constructs its Model with, and the largest generation counted.
MaxCellSize == 2
MaxCanvas == 2
GuiLiveState == 2
MaxGeneration == 1

\* The canvas width of the specifications in which the pointer moves over
\* the canvas (SpecDraw, SpecHover), and the side of the canvas of SpecTimer.
NarrowCanvas == 1

\* The number of brightness adjustments a Cell's colour may be away from
\* the colour map when a hover handler is explored.
MaxAdjustments == 1

\* The largest generation counted in SpecTimer.
TimerMaxGeneration == 3

\* "should be > 1" (Controller.__init__): the smallest live_state constructed.
MinLiveState == 2

VARIABLES
    num_rows,      \* Model.num_rows
    num_cols,      \* Model.num_cols
    live_state,    \* Model.live_state
    wrap,          \* Model.wrap
    trace,         \* Model.trace
    cell_states,   \* Model.cell_states: a list of rows, each a list of ints
    population,    \* Model.population
    total_cells,   \* Model.total_cells
    lastOp,        \* history: the operation that led to this state
    age,           \* history: per cell, the number of step() calls since the
                   \* cell died in a step() with trace on (saturating at
                   \* live_state); 0 when it is not in such a decay
    controller,    \* the fields of Controller, a record
    view,          \* the fields of View and of its Cell objects, a record
    handler        \* history: the event handler that led to this state, the
                   \* calls it made on the model and the view, in order,
                   \* and the exception that ended it, if any

\* The fields of Model and their history.
model_vars == <<num_rows, num_cols, live_state, wrap, trace, cell_states,
                population, total_cells, lastOp, age>>

\* The fields of Controller and View and their history.
gui_vars == <<controller, view, handler>>

vars == <<model_vars, gui_vars>>

Max(a, b) == IF a >= b THEN a ELSE b
Min(a, b) == IF a <= b THEN a ELSE b

\* [0] * n
Zeros(n) == [i \in 1..n |-> 0]

\* [[0] * cols for _ in range(rows)]
ZeroGrid(rows, cols) == [r \in 1..rows |-> Zeros(cols)]

\* range(rows) x range(cols) as 0-based coordinates
Coords(rows, cols) == (0..(rows - 1)) \X (0..(cols - 1))

(***************************************************************************)
(* Model._count_live_neighbors                                             *)
(***************************************************************************)

\* NeighborContribution without the "continue" for d_row == d_col == 0: the
\* cell counts itself.
NeighborContributionCountsSelf(grid, rows, cols, ls, w, row, col, d_row, d_col) ==
    LET neighbor_row == row + d_row
        neighbor_col == col + d_col
        row_out == ~(0 <= neighbor_row /\ neighbor_row < rows)
        col_out == ~(0 <= neighbor_col /\ neighbor_col < cols)
    IN  IF row_out /\ ~w THEN 0
        ELSE IF col_out /\ ~w THEN 0
        ELSE
          LET nr == IF row_out THEN neighbor_row % rows ELSE neighbor_row
              nc == IF col_out THEN neighbor_col % cols ELSE neighbor_col
          IN  IF grid[nr + 1][nc + 1] = ls THEN 1 ELSE 0

\* NeighborContribution with the last test written as a truth test
\* ("if self.cell_states[neighbor_row][neighbor_col]:"): fading cells count.
NeighborContributionNonzero(grid, rows, cols, ls, w, row, col, d_row, d_col) ==
    IF d_row = 0 /\ d_col = 0 THEN 0
    ELSE
      LET neighbor_row == row + d_row
          neighbor_col == col + d_col
          row_out == ~(0 <= neighbor_row /\ neighbor_row < rows)
          col_out == ~(0 <= neighbor_col /\ neighbor_col < cols)
      IN  IF row_out /\ ~w THEN 0
          ELSE IF col_out /\ ~w THEN 0
          ELSE
            LET nr == IF row_out THEN neighbor_row % rows ELSE neighbor_row
                nc == IF col_out THEN neighbor_col % cols ELSE neighbor_col
            IN  IF grid[nr + 1][nc + 1] # 0 THEN 1 ELSE 0

\* One iteration of the two nested loops over d_row, d_col: what it adds to
\* live_neighbors.
NeighborContribution(grid, rows, cols, ls, w, row, col, d_row, d_col) ==
    IF d_row = 0 /\ d_col = 0 THEN 0
    ELSE
      LET neighbor_row == row + d_row
          neighbor_col == col + d_col
          row_out == ~(0 <= neighbor_row /\ neighbor_row < rows)
          col_out == ~(0 <= neighbor_col /\ neighbor_col < cols)
      IN  IF row_out /\ ~w THEN 0
          ELSE IF col_out /\ ~w THEN 0
          ELSE
            LET nr == IF row_out THEN neighbor_row % rows ELSE neighbor_row
                nc == IF col_out THEN neighbor_col % cols ELSE neighbor_col
            IN  IF grid[nr + 1][nc + 1] = ls THEN 1 ELSE 0

\* The loops in the code's order: k = 0..8 is (d_row, d_col) =
\* (-1,-1), (-1,0), (-1,1), (0,-1), ..., (1,1).
RECURSIVE NeighborLoop(_, _, _, _, _, _, _, _)
NeighborLoop(grid, rows, cols, ls, w, row, col, k) ==
    IF k = 9 THEN 0
    ELSE NeighborContribution(grid, rows, cols, ls, w, row, col,
                              (k \div 3) - 1, (k % 3) - 1)
         + NeighborLoop(grid, rows, cols, ls, w, row, col, k + 1)

count_live_neighbors(grid, rows, cols, ls, w, row, col) ==
    NeighborLoop(grid, rows, cols, ls, w, row, col, 0)

(***************************************************************************)
(* Model.step                                                              *)
(***************************************************************************)

\* SetAliveRule with "== 2" for "2 <= ... <= 3": a live cell with three live
\* neighbours is not kept.
SetAliveRuleSurviveTwoOnly(cell_state, live_neighbors, ls) ==
    \/ cell_state = ls /\ live_neighbors = 2
    \/ cell_state < ls /\ live_neighbors = 3

\* SetAliveRule without the survival clause: alive next only with exactly
\* three live neighbours.
SetAliveRuleNoSurvival(cell_state, live_neighbors, ls) ==
    live_neighbors = 3

\* The condition of the first branch: the cell is set alive.
SetAliveRule(cell_state, live_neighbors, ls) ==
    \/ cell_state = ls /\ 2 <= live_neighbors /\ live_neighbors <= 3
    \/ cell_state < ls /\ live_neighbors = 3

\* FadeValue without the floor: cell_state - 1.
FadeValueNoFloor(cell_state) == cell_state - 1

\* FadeValue with a decrement of 2.
FadeValueByTwo(cell_state) == Max(cell_state - 2, 1)

\* The value of the elif branch: fade, keeping the faintest trail.
FadeValue(cell_state) == Max(cell_state - 1, 1)

\* NextCellState with the elif branch written "elif self.trace:" and the
\* fade as cell_state - 1: dead cells fade too, below 0.
NextCellStateUnguardedFade(grid, rows, cols, ls, w, t, row, col) ==
    LET cell_state == grid[row + 1][col + 1]
        live_neighbors == count_live_neighbors(grid, rows, cols, ls, w,
                                               row, col)
    IN  IF SetAliveRule(cell_state, live_neighbors, ls) THEN ls
        ELSE IF t THEN cell_state - 1
        ELSE 0

\* NextCellState with the elif branch written "elif cell_state:": cells fade
\* whether or not trace is on.
NextCellStateFadeWithoutTrace(grid, rows, cols, ls, w, t, row, col) ==
    LET cell_state == grid[row + 1][col + 1]
        live_neighbors == count_live_neighbors(grid, rows, cols, ls, w,
                                               row, col)
    IN  IF SetAliveRule(cell_state, live_neighbors, ls) THEN ls
        ELSE IF cell_state # 0 THEN FadeValue(cell_state)
        ELSE 0

\* The value written to the new buffer at (row, col); the buffer starts as
\* zeros and both the cell and its neighbours are read from self.cell_states.
NextCellState(grid, rows, cols, ls, w, t, row, col) ==
    LET cell_state == grid[row + 1][col + 1]
        live_neighbors == count_live_neighbors(grid, rows, cols, ls, w,
                                               row, col)
    IN  IF SetAliveRule(cell_state, live_neighbors, ls) THEN ls
        ELSE IF t /\ cell_state # 0 THEN FadeValue(cell_state)
        ELSE 0

\* The same loop writing into the grid it reads (no separate buffer):
\* cells are visited row by row, k = row * cols + col.
RECURSIVE StepInPlaceLoop(_, _, _, _, _, _, _)
StepInPlaceLoop(grid, rows, cols, ls, w, t, k) ==
    IF k >= rows * cols THEN grid
    ELSE
      LET row == k \div cols
          col == k % cols
          v == NextCellState(grid, rows, cols, ls, w, t, row, col)
      IN  StepInPlaceLoop([grid EXCEPT ![row + 1][col + 1] = v],
                          rows, cols, ls, w, t, k + 1)

StepGridInPlace(grid, rows, cols, ls, w, t) ==
    StepInPlaceLoop(grid, rows, cols, ls, w, t, 0)

\* The local cell_states after the loops.
StepGrid(grid, rows, cols, ls, w, t) ==
    [r \in 1..rows |->
        [c \in 1..cols |-> NextCellState(grid, rows, cols, ls, w, t,
                                         r - 1, c - 1)]]

\* The local population after the loops: one increment per cell set alive.
RECURSIVE StepPopulationLoop(_, _, _, _, _, _, _)
StepPopulationLoop(grid, rows, cols, ls, w, t, k) ==
    IF k >= rows * cols THEN 0
    ELSE (IF NextCellState(grid, rows, cols, ls, w, t,
                           k \div cols, k % cols) = ls
          THEN 1 ELSE 0)
         + StepPopulationLoop(grid, rows, cols, ls, w, t, k + 1)

StepPopulation(grid, rows, cols, ls, w, t) ==
    StepPopulationLoop(grid, rows, cols, ls, w, t, 0)

\* History only: the age of each cell after a step from grid to new. A cell
\* made live is reborn (0); with trace on a cell that was live and is no
\* longer has just died (1) and a cell already decaying is one step older.
StepAge(grid, new, a, rows, cols, ls, t) ==
    [r \in 1..rows |-> [c \in 1..cols |->
        IF new[r][c] = ls \/ ~t THEN 0
        ELSE IF grid[r][c] = ls THEN 1
        ELSE IF a[r][c] > 0 THEN Min(a[r][c] + 1, ls)
        ELSE 0]]

(***************************************************************************)
(* Model.randomize, Model.clear, Model.toggle_trace: loops that write each *)
(* cell of range(num_rows) x range(num_cols) in place                      *)
(***************************************************************************)

\* RandomizeGrid without the else branch: a cell whose bit is 0 keeps the
\* value it had.
RandomizeGridNoElse(grid, rows, cols, ls, bits) ==
    [r \in DOMAIN grid |-> [c \in DOMAIN grid[r] |->
        IF r <= rows /\ c <= cols /\ bits[<<r - 1, c - 1>>]
        THEN ls
        ELSE grid[r][c]]]

\* bits[<<row, col>>] is the value of getrandbits(1) drawn for that cell.
RandomizeGrid(grid, rows, cols, ls, bits) ==
    [r \in DOMAIN grid |-> [c \in DOMAIN grid[r] |->
        IF r <= rows /\ c <= cols
        THEN (IF bits[<<r - 1, c - 1>>] THEN ls ELSE 0)
        ELSE grid[r][c]]]

\* population after randomize: reset to 0, one increment per set bit.
RECURSIVE RandomizePopulationLoop(_, _, _, _)
RandomizePopulationLoop(rows, cols, bits, k) ==
    IF k >= rows * cols THEN 0
    ELSE (IF bits[<<k \div cols, k % cols>>] THEN 1 ELSE 0)
         + RandomizePopulationLoop(rows, cols, bits, k + 1)

RandomizePopulation(rows, cols, bits) ==
    RandomizePopulationLoop(rows, cols, bits, 0)

\* ClearGrid whose row loop stops one row short.
ClearGridSkipsLastRow(grid, rows, cols) ==
    [r \in DOMAIN grid |-> [c \in DOMAIN grid[r] |->
        IF r < rows /\ c <= cols THEN 0 ELSE grid[r][c]]]

ClearGrid(grid, rows, cols) ==
    [r \in DOMAIN grid |-> [c \in DOMAIN grid[r] |->
        IF r <= rows /\ c <= cols THEN 0 ELSE grid[r][c]]]

\* CollapseCell with "<=" for "<": live cells are cleared too.
CollapseCellInclusive(v, ls) == IF v <= ls THEN 0 ELSE v

\* The loop of toggle_trace that runs when trace has become false.
CollapseCell(v, ls) == IF v < ls THEN 0 ELSE v

CollapseGrid(grid, rows, cols, ls) ==
    [r \in DOMAIN grid |-> [c \in DOMAIN grid[r] |->
        IF r <= rows /\ c <= cols THEN CollapseCell(grid[r][c], ls)
        ELSE grid[r][c]]]

\* ToggleTraceGrid with the test inverted ("if self.trace:"): the collapse
\* runs when trace is switched on instead of off.
ToggleTraceGridInverted(grid, rows, cols, ls, new_trace) ==
    IF new_trace THEN CollapseGrid(grid, rows, cols, ls) ELSE grid

\* cell_states after toggle_trace, new_trace being the flipped flag.
ToggleTraceGrid(grid, rows, cols, ls, new_trace) ==
    IF ~new_trace THEN CollapseGrid(grid, rows, cols, ls) ELSE grid

(***************************************************************************)
(* Model.set_cells_state                                                   *)
(***************************************************************************)

\* SetOneCell without the "== self.live_state" test before the decrement:
\* clearing a fading cell decrements population too.
SetOneCellAlwaysDecrement(m, ls, row, col, state) ==
    LET v == m.cells[row + 1][col + 1]
    IN  IF state /\ v # ls
        THEN [cells |-> [m.cells EXCEPT ![row + 1][col + 1] = ls],
              population |-> m.population + 1]
        ELSE IF ~state /\ v # 0
        THEN [cells |-> [m.cells EXCEPT ![row + 1][col + 1] = 0],
              population |-> m.population - 1]
        ELSE m

\* SetOneCell without the "!= self.live_state" test: a cell that is already
\* alive, or listed twice, is counted again.
SetOneCellAlwaysIncrement(m, ls, row, col, state) ==
    LET v == m.cells[row + 1][col + 1]
    IN  IF state
        THEN [cells |-> [m.cells EXCEPT ![row + 1][col + 1] = ls],
              population |-> m.population + 1]
        ELSE IF ~state /\ v # 0
        THEN [cells |-> [m.cells EXCEPT ![row + 1][col + 1] = 0],
              population |-> IF v = ls THEN m.population - 1
                             ELSE m.population]
        ELSE m

\* SetOneCell with no test at all on the clearing branch: every listed cell
\* is written 0 and counted off, already dead or not.
SetOneCellUnguardedClear(m, ls, row, col, state) ==
    LET v == m.cells[row + 1][col + 1]
    IN  IF state /\ v # ls
        THEN [cells |-> [m.cells EXCEPT ![row + 1][col + 1] = ls],
              population |-> m.population + 1]
        ELSE IF ~state
        THEN [cells |-> [m.cells EXCEPT ![row + 1][col + 1] = 0],
              population |-> m.population - 1]
        ELSE m

\* One iteration of the loop on the pair m = [cells, population].
SetOneCell(m, ls, row, col, state) ==
    LET v == m.cells[row + 1][col + 1]
    IN  IF state /\ v # ls
        THEN [cells |-> [m.cells EXCEPT ![row + 1][col + 1] = ls],
              population |-> m.population + 1]
        ELSE IF ~state /\ v # 0
        THEN [cells |-> [m.cells EXCEPT ![row + 1][col + 1] = 0],
              population |-> IF v = ls THEN m.population - 1
                             ELSE m.population]
        ELSE m

\* for row, col in cells: the iterations from index i on.
RECURSIVE SetCellsLoop(_, _, _, _, _)
SetCellsLoop(m, ls, cells, state, i) ==
    IF i > Len(cells) THEN m
    ELSE SetCellsLoop(SetOneCell(m, ls, cells[i][1], cells[i][2], state),
                      ls, cells, state, i + 1)

\* [cells, population] after set_cells_state(cells, state).
SetCellsResult(grid, pop, ls, cells, state) ==
    SetCellsLoop([cells |-> grid, population |-> pop], ls, cells, state, 1)

\* A Python list index: i itself when 0 <= i < n, i + n when -n <= i < 0,
\* and -1 for the IndexError raised otherwise.
PyIndex(i, n) ==
    IF 0 <= i /\ i < n THEN i
    ELSE IF -n <= i /\ i < 0 THEN i + n
    ELSE -1

\* The loop of set_cells_state on coordinates of any value, from index i on:
\* self.cell_states[row][col] indexes the row list, then the column list;
\* an IndexError ends the call and keeps what the earlier iterations wrote.
RECURSIVE SetCellsAnyLoop(_, _, _, _, _)
SetCellsAnyLoop(m, ls, cells, state, i) ==
    IF i > Len(cells)
    THEN [cells |-> m.cells, population |-> m.population, raised |-> FALSE]
    ELSE LET row == PyIndex(cells[i][1], Cardinality(DOMAIN m.cells))
             col == IF row < 0 THEN -1
                    ELSE PyIndex(cells[i][2],
                                 Cardinality(DOMAIN m.cells[row + 1]))
         IN  IF row < 0 \/ col < 0
             THEN [cells |-> m.cells, population |-> m.population,
                   raised |-> TRUE]
             ELSE SetCellsAnyLoop(SetOneCell(m, ls, row, col, state),
                                  ls, cells, state, i + 1)

\* [cells, population, raised] after set_cells_state(cells, state) with no
\* assumption on the coordinates.
SetCellsAnyResult(grid, pop, ls, cells, state) ==
    SetCellsAnyLoop([cells |-> grid, population |-> pop], ls, cells, state, 1)

(***************************************************************************)
(* Model.adjust_grid_size                                                  *)
(***************************************************************************)

\* The scans of the cells being dropped: the number of decrements made for
\* rows row_lo..row_hi-1 and columns col_lo..col_hi-1, cell by cell.
RECURSIVE DroppedLive(_, _, _, _, _, _, _)
DroppedLive(grid, ls, row_lo, row_hi, col_lo, col_hi, k) ==
    LET width == col_hi - col_lo
    IN  IF row_hi <= row_lo \/ width <= 0 \/ k >= (row_hi - row_lo) * width
        THEN 0
        ELSE (IF grid[row_lo + (k \div width) + 1][col_lo + (k % width) + 1]
                 = ls
              THEN 1 ELSE 0)
             + DroppedLive(grid, ls, row_lo, row_hi, col_lo, col_hi, k + 1)

\* Variant of AdjustRows whose appended rows are as wide as the new row count.
AdjustRowsWrongWidth(grid, pop, ls, old_num_rows, old_num_cols, new_num_rows) ==
    IF new_num_rows > old_num_rows
    THEN [cells |-> grid \o [i \in 1..(new_num_rows - old_num_rows) |->
                                Zeros(new_num_rows)],
          population |-> pop]
    ELSE IF new_num_rows < old_num_rows
    THEN [cells |-> SubSeq(grid, 1, new_num_rows),
          population |-> pop - DroppedLive(grid, ls, new_num_rows,
                                           old_num_rows, 0, old_num_cols, 0)]
    ELSE [cells |-> grid, population |-> pop]

\* Variant of AdjustRows that drops rows without scanning them for live cells.
AdjustRowsNoDecrement(grid, pop, ls, old_num_rows, old_num_cols, new_num_rows) ==
    IF new_num_rows > old_num_rows
    THEN [cells |-> grid \o [i \in 1..(new_num_rows - old_num_rows) |->
                                Zeros(old_num_cols)],
          population |-> pop]
    ELSE IF new_num_rows < old_num_rows
    THEN [cells |-> SubSeq(grid, 1, new_num_rows), population |-> pop]
    ELSE [cells |-> grid, population |-> pop]

\* "Adjust rows": [cells, population] after the first if/elif.
AdjustRows(grid, pop, ls, old_num_rows, old_num_cols, new_num_rows) ==
    IF new_num_rows > old_num_rows
    THEN [cells |-> grid \o [i \in 1..(new_num_rows - old_num_rows) |->
                                Zeros(old_num_cols)],
          population |-> pop]
    ELSE IF new_num_rows < old_num_rows
    THEN [cells |-> SubSeq(grid, 1, new_num_rows),
          population |-> pop - DroppedLive(grid, ls, new_num_rows,
                                           old_num_rows, 0, old_num_cols, 0)]
    ELSE [cells |-> grid, population |-> pop]

\* Variant of AdjustCols that counts the dropped live cells but keeps the
\* columns.
AdjustColsNoTruncate(grid, pop, ls, old_num_cols, new_num_rows, new_num_cols) ==
    IF new_num_cols > old_num_cols
    THEN [cells |-> [r \in DOMAIN grid |->
                        IF r <= new_num_rows
                        THEN grid[r] \o Zeros(new_num_cols - old_num_cols)
                        ELSE grid[r]],
          population |-> pop]
    ELSE IF new_num_cols < old_num_cols
    THEN [cells |-> grid,
          population |-> pop - DroppedLive(grid, ls, 0, new_num_rows,
                                           new_num_cols, old_num_cols, 0)]
    ELSE [cells |-> grid, population |-> pop]

\* "Adjust cols": [cells, population] after the second if/elif.
AdjustCols(grid, pop, ls, old_num_cols, new_num_rows, new_num_cols) ==
    IF new_num_cols > old_num_cols
    THEN [cells |-> [r \in DOMAIN grid |->
                        IF r <= new_num_rows
                        THEN grid[r] \o Zeros(new_num_cols - old_num_cols)
                        ELSE grid[r]],
          population |-> pop]
    ELSE IF new_num_cols < old_num_cols
    THEN [cells |-> [r \in DOMAIN grid |->
                        IF r <= new_num_rows
                        THEN SubSeq(grid[r], 1, new_num_cols)
                        ELSE grid[r]],
          population |-> pop - DroppedLive(grid, ls, 0, new_num_rows,
                                           new_num_cols, old_num_cols, 0)]
    ELSE [cells |-> grid, population |-> pop]

\* [cells, population] after adjust_grid_size: rows first, then columns.
AdjustResult(grid, pop, ls, old_num_rows, old_num_cols, new_num_rows, new_num_cols) ==
    LET m == AdjustRows(grid, pop, ls, old_num_rows, old_num_cols,
                        new_num_rows)
    IN  AdjustCols(m.cells, m.population, ls, old_num_cols,
                   new_num_rows, new_num_cols)

(***************************************************************************)
(* The state machine                                                       *)
(***************************************************************************)

\* History only: the operation that acted, the alive argument it was given
\* (set_cells_state) and whether it changed the value of any cell.
Op(name, alive, changed) ==
    [name |-> name, alive |-> alive, changed |-> changed]

\* The coordinate lists handed to set_cells_state: in range, duplicates
\* allowed, at most MaxCells long.
CoordLists(rows, cols) ==
    UNION {[1..n -> Coords(rows, cols)] : n \in 0..MaxCells}

\* Construct with the two dimensions exchanged in the list comprehension:
\* num_cols rows of num_rows entries.
ConstructTransposed(rows, cols, ls, w, t) ==
    /\ num_rows = rows
    /\ num_cols = cols
    /\ live_state = ls
    /\ wrap = w
    /\ trace = t
    /\ cell_states = ZeroGrid(num_cols, num_rows)
    /\ population = 0
    /\ total_cells = num_rows * num_cols
    /\ lastOp = Op("__init__", FALSE, FALSE)
    /\ age = ZeroGrid(num_rows, num_cols)

\* Model.__init__
Construct(rows, cols, ls, w, t) ==
    /\ num_rows = rows
    /\ num_cols = cols
    /\ live_state = ls
    /\ wrap = w
    /\ trace = t
    /\ cell_states = ZeroGrid(num_rows, num_cols)
    /\ population = 0
    /\ total_cells = num_rows * num_cols
    /\ lastOp = Op("__init__", FALSE, FALSE)
    /\ age = ZeroGrid(num_rows, num_cols)

\* A Model that no Controller owns: the class used on its own.
NoGui ==
    /\ controller = "none"
    /\ view = "none"
    /\ handler = "none"

Init ==
    /\ \E rows \in 0..MaxRows, cols \in 0..MaxCols,
          ls \in MinLiveState..MaxLiveState, w \in BOOLEAN, t \in BOOLEAN :
           Construct(rows, cols, ls, w, t)
    /\ NoGui

randomize ==
    \E bits \in [Coords(num_rows, num_cols) -> BOOLEAN] :
        /\ cell_states' = RandomizeGrid(cell_states, num_rows, num_cols,
                                        live_state, bits)
        /\ population' = RandomizePopulation(num_rows, num_cols, bits)
        /\ age' = ZeroGrid(num_rows, num_cols)
        /\ lastOp' = Op("randomize", FALSE, cell_states' # cell_states)
        /\ UNCHANGED <<num_rows, num_cols, live_state, wrap, trace,
                       total_cells>>

clear ==
    /\ cell_states' = ClearGrid(cell_states, num_rows, num_cols)
    /\ population' = 0
    /\ age' = ZeroGrid(num_rows, num_cols)
    /\ lastOp' = Op("clear", FALSE, cell_states' # cell_states)
    /\ UNCHANGED <<num_rows, num_cols, live_state, wrap, trace, total_cells>>

\* step that stores the new population in total_cells as well.
step_overwrites_total_cells ==
    /\ cell_states' = StepGrid(cell_states, num_rows, num_cols, live_state,
                               wrap, trace)
    /\ population' = StepPopulation(cell_states, num_rows, num_cols,
                                    live_state, wrap, trace)
    /\ total_cells' = population'
    /\ age' = StepAge(cell_states, cell_states', age, num_rows, num_cols,
                      live_state, trace)
    /\ lastOp' = Op("step", FALSE, cell_states' # cell_states)
    /\ UNCHANGED <<num_rows, num_cols, live_state, wrap, trace>>

step ==
    /\ cell_states' = StepGrid(cell_states, num_rows, num_cols, live_state,
                               wrap, trace)
    /\ population' = StepPopulation(cell_states, num_rows, num_cols,
                                    live_state, wrap, trace)
    /\ age' = StepAge(cell_states, cell_states', age, num_rows, num_cols,
                      live_state, trace)
    /\ lastOp' = Op("step", FALSE, cell_states' # cell_states)
    /\ UNCHANGED <<num_rows, num_cols, live_state, wrap, trace, total_cells>>

\* toggle_wrap that negates the other flag: self.wrap = not self.trace.
toggle_wrap_from_trace ==
    /\ wrap' = ~trace
    /\ lastOp' = Op("toggle_wrap", FALSE, FALSE)
    /\ UNCHANGED <<num_rows, num_cols, live_state, trace, cell_states,
                   population, total_cells, age>>

toggle_wrap ==
    /\ wrap' = ~wrap
    /\ lastOp' = Op("toggle_wrap", FALSE, FALSE)
    /\ UNCHANGED <<num_rows, num_cols, live_state, trace, cell_states,
                   population, total_cells, age>>

toggle_trace ==
    /\ trace' = ~trace
    /\ cell_states' = ToggleTraceGrid(cell_states, num_rows, num_cols,
                                      live_state, trace')
    /\ age' = IF trace' THEN age ELSE ZeroGrid(num_rows, num_cols)
    /\ lastOp' = Op("toggle_trace", FALSE, cell_states' # cell_states)
    /\ UNCHANGED <<num_rows, num_cols, live_state, wrap, population,
                   total_cells>>

adjust_grid_size(new_num_rows, new_num_cols) ==
    LET m == AdjustResult(cell_states, population, live_state,
                          num_rows, num_cols, new_num_rows, new_num_cols)
    IN  /\ num_rows' = new_num_rows
        /\ num_cols' = new_num_cols
        /\ cell_states' = m.cells
        /\ population' = m.population
        /\ total_cells' = num_rows' * num_cols'
        /\ age' = [r \in 1..new_num_rows |-> [c \in 1..new_num_cols |->
                      IF r <= num_rows /\ c <= num_cols THEN age[r][c]
                      ELSE 0]]
        /\ lastOp' = Op("adjust_grid_size", FALSE, cell_states' # cell_states)
        /\ UNCHANGED <<live_state, wrap, trace>>

set_cells_state(cells, state) ==
    LET m == SetCellsResult(cell_states, population, live_state, cells, state)
    IN  /\ cell_states' = m.cells
        /\ population' = m.population
        /\ age' = [r \in 1..num_rows |-> [c \in 1..num_cols |->
                      IF \E i \in 1..Len(cells) : cells[i] = <<r - 1, c - 1>>
                      THEN 0 ELSE age[r][c]]]
        /\ lastOp' = Op("set_cells_state", state, cell_states' # cell_states)
        /\ UNCHANGED <<num_rows, num_cols, live_state, wrap, trace,
                       total_cells>>

Next ==
    \/ randomize /\ UNCHANGED gui_vars
    \/ clear /\ UNCHANGED gui_vars
    \/ step /\ UNCHANGED gui_vars
    \/ toggle_wrap /\ UNCHANGED gui_vars
    \/ toggle_trace /\ UNCHANGED gui_vars
    \/ /\ \E new_num_rows \in 0..MaxRows, new_num_cols \in 0..MaxCols :
              adjust_grid_size(new_num_rows, new_num_cols)
       /\ UNCHANGED gui_vars
    \/ /\ \E cells \in CoordLists(num_rows, num_cols), state \in BOOLEAN :
              set_cells_state(cells, state)
       /\ UNCHANGED gui_vars

Spec == Init /\ [][Next]_vars

(***************************************************************************)
(* A second specification for the generation rule on larger grids: a       *)
(* pattern is drawn one cell at a time on a freshly constructed grid of up *)
(* to LifeRows x LifeCols cells, and then step() runs generation after     *)
(* generation.                                                             *)
(***************************************************************************)

InitLife ==
    /\ \E rows \in 0..LifeRows, cols \in 0..LifeCols,
          ls \in MinLiveState..MaxLiveState, w \in BOOLEAN, t \in BOOLEAN :
           Construct(rows, cols, ls, w, t)
    /\ NoGui

\* set_cells_state([(row, col)], state) while no generation has run yet.
DrawCell ==
    /\ lastOp.name # "step"
    /\ \E cell \in Coords(num_rows, num_cols), state \in BOOLEAN :
           set_cells_state(<<cell>>, state)
    /\ UNCHANGED gui_vars

NextLife ==
    \/ DrawCell
    \/ step /\ UNCHANGED gui_vars

SpecLife == InitLife /\ [][NextLife]_vars

(***************************************************************************)
(* Still life: a model of 4..BlockMaxRows x 4..BlockMaxCols cells without  *)
(* wrap, one set_cells_state call listing the four cells of a 2 x 2 block, *)
(* then generations only.                                                  *)
(***************************************************************************)

InitBlock ==
    /\ \E rows \in 4..BlockMaxRows, cols \in 4..BlockMaxCols,
          ls \in MinLiveState..MaxLiveState, t \in BOOLEAN :
           Construct(rows, cols, ls, FALSE, t)
    /\ NoGui

\* The coordinate list of the 2 x 2 block whose top left cell is (row, col).
BlockCells(row, col) ==
    <<<<row, col>>, <<row, col + 1>>, <<row + 1, col>>, <<row + 1, col + 1>>>>

\* set_cells_state(block, True) on the freshly constructed grid.
DrawBlock ==
    /\ lastOp.name = "__init__"
    /\ \E row \in 0..(num_rows - 2), col \in 0..(num_cols - 2) :
           set_cells_state(BlockCells(row, col), TRUE)
    /\ UNCHANGED gui_vars

NextBlock ==
    \/ DrawBlock
    \/ step /\ UNCHANGED gui_vars

SpecBlock == InitBlock /\ [][NextBlock]_vars

(***************************************************************************)
(* The class used on its own, with arguments nothing has checked: any      *)
(* live_state from 0 to the least value a caller is told to use, and       *)
(* coordinate lists whose entries range over -1..MaxRows x -1..MaxCols.    *)
(***************************************************************************)

AnyCoordLists ==
    UNION {[1..n -> (-1..MaxRows) \X (-1..MaxCols)] : n \in 0..MaxCells}

InitUnchecked ==
    /\ \E rows \in 0..MaxRows, cols \in 0..MaxCols, ls \in 0..MinLiveState,
          w \in BOOLEAN, t \in BOOLEAN :
           Construct(rows, cols, ls, w, t)
    /\ NoGui

set_cells_state_unchecked(cells, state) ==
    LET m == SetCellsAnyResult(cell_states, population, live_state, cells,
                               state)
    IN  /\ cell_states' = m.cells
        /\ population' = m.population
        /\ age' = [r \in 1..num_rows |-> [c \in 1..num_cols |->
                      IF m.cells[r][c] # cell_states[r][c]
                      THEN 0 ELSE age[r][c]]]
        /\ lastOp' = Op(IF m.raised THEN "set_cells_state: IndexError"
                        ELSE "set_cells_state",
                        state, cell_states' # cell_states)
        /\ UNCHANGED <<num_rows, num_cols, live_state, wrap, trace,
                       total_cells>>

NextUnchecked ==
    \/ /\ \E cells \in AnyCoordLists, state \in BOOLEAN :
              set_cells_state_unchecked(cells, state)
       /\ UNCHANGED gui_vars
    \/ step /\ UNCHANGED gui_vars

SpecUnchecked == InitUnchecked /\ [][NextUnchecked]_vars

(***************************************************************************)
(* Cell and View: what is drawn on the canvas.  A Cell is kept as the      *)
(* state it was last coloured for, its highlighted flag, whether its       *)
(* prehighlight_color attribute exists, and its color and                  *)
(* prehighlight_color; the canvas items and the grid lines are left out.   *)
(* A colour is a grey '#vvvvvv', kept as the number v in 0..255.           *)
(***************************************************************************)

\* get_random_color(), twice: the dead and the live colour of this model.
RandomColors == [dead_cell_color |-> 32, live_cell_color |-> 224]

\* adjust_color_brightness(color, Cell.HIGHLIGHT_COLOR_ADJUST) on a grey:
\* its value v / 255 goes down by 0.25 when it is at least 0.25 and up by
\* 0.25 otherwise, and int(v * 255) truncates.
adjust_color_brightness(color) ==
    IF 4 * color >= 255 THEN (4 * color - 255) \div 4
    ELSE (4 * color + 255) \div 4

\* View._precompute_color_map: color_map[cell_state], interpolated between
\* the dead colour and the live colour with ratio cell_state / live_state
\* and truncated.
color_map(cell_state) ==
    LET a == RandomColors.dead_cell_color
        b == RandomColors.live_cell_color
    IN  IF cell_state = 0 THEN a
        ELSE IF cell_state = GuiLiveState THEN b
        ELSE (a * GuiLiveState + (b - a) * cell_state) \div GuiLiveState

\* Cell.__init__: a dead, unhighlighted cell without prehighlight_color
\* (saved is FALSE and the field holds the cell's colour, never read).
NewCell ==
    [state |-> 0, highlighted |-> FALSE, saved |-> FALSE,
     color |-> color_map(0), prehighlight_color |-> color_map(0)]

\* set_state that returns at once on a highlighted cell.
CellSetStateSkipsHighlighted(cell, new_state) ==
    IF cell.highlighted THEN cell
    ELSE [state |-> new_state, highlighted |-> FALSE, saved |-> cell.saved,
          color |-> color_map(new_state),
          prehighlight_color |-> cell.prehighlight_color]

\* Cell.set_state(new_state).
CellSetState(cell, new_state) ==
    [state |-> new_state, highlighted |-> cell.highlighted,
     saved |-> cell.saved \/ cell.highlighted,
     color |-> IF cell.highlighted
               THEN adjust_color_brightness(color_map(new_state))
               ELSE color_map(new_state),
     prehighlight_color |-> IF cell.highlighted THEN color_map(new_state)
                            ELSE cell.prehighlight_color]

\* Cell.update_highlight(new_highlight_state), on a cell that has
\* prehighlight_color when it is read.
CellUpdateHighlight(cell, new_highlight_state) ==
    [state |-> cell.state, highlighted |-> new_highlight_state,
     saved |-> TRUE,
     color |-> IF new_highlight_state
               THEN adjust_color_brightness(cell.color)
               ELSE cell.prehighlight_color,
     prehighlight_color |-> IF new_highlight_state THEN cell.color
                            ELSE cell.prehighlight_color]

\* [[Cell(row, col) ...] ...]: rows x cols new cells.
NewCells(rows, cols) == [r \in 1..rows |-> [c \in 1..cols |-> NewCell]]

\* View.update_all_cells(cell_states): the loops run over the view's own
\* num_rows x num_cols, row by row; indexing a position that cells or
\* cell_states does not have raises IndexError and keeps what was drawn
\* before it.  k is the number of positions done.
RECURSIVE UpdateAllLoop(_, _, _, _, _)
UpdateAllLoop(cells, rows, cols, grid, k) ==
    IF k >= rows * cols THEN [cells |-> cells, raised |-> "none"]
    ELSE LET r == (k \div cols) + 1
             c == (k % cols) + 1
         IN  IF /\ r \in DOMAIN cells /\ c \in DOMAIN cells[r]
                /\ r \in DOMAIN grid /\ c \in DOMAIN grid[r]
             THEN UpdateAllLoop(
                      [cells EXCEPT ![r][c] = CellSetState(@, grid[r][c])],
                      rows, cols, grid, k + 1)
             ELSE [cells |-> cells, raised |-> "IndexError"]

update_all_cells(v, grid) ==
    UpdateAllLoop(v.cells, v.num_rows, v.num_cols, grid, 0)

\* View.update_given_cells(cells, state): for row, col in cells, from index
\* i on; ls is View.live_state.
RECURSIVE UpdateGivenLoop(_, _, _, _, _)
UpdateGivenLoop(cells, ls, coords, state, i) ==
    IF i > Len(coords) THEN [cells |-> cells, raised |-> "none"]
    ELSE LET r == PyIndex(coords[i][1], Cardinality(DOMAIN cells))
             c == IF r < 0 THEN -1
                  ELSE PyIndex(coords[i][2],
                               Cardinality(DOMAIN cells[r + 1]))
         IN  IF r < 0 \/ c < 0
             THEN [cells |-> cells, raised |-> "IndexError"]
             ELSE UpdateGivenLoop(
                      [cells EXCEPT ![r + 1][c + 1] =
                           CellSetState(@, IF state THEN ls ELSE 0)],
                      ls, coords, state, i + 1)

update_given_cells(v, ls, coords, state) ==
    UpdateGivenLoop(v.cells, ls, coords, state, 1)

\* View.set_cells_highlight(cells, state): Cell.update_highlight on each
\* listed cell, from index i on.  Unhighlighting reads prehighlight_color
\* first, which a cell that was never highlighted does not have.
RECURSIVE HighlightLoop(_, _, _, _)
HighlightLoop(cells, coords, state, i) ==
    IF i > Len(coords) THEN [cells |-> cells, raised |-> "none"]
    ELSE LET r == PyIndex(coords[i][1], Cardinality(DOMAIN cells))
             c == IF r < 0 THEN -1
                  ELSE PyIndex(coords[i][2],
                               Cardinality(DOMAIN cells[r + 1]))
         IN  IF r < 0 \/ c < 0
             THEN [cells |-> cells, raised |-> "IndexError"]
             ELSE IF ~state /\ ~cells[r + 1][c + 1].saved
             THEN [cells |-> cells, raised |-> "AttributeError"]
             ELSE HighlightLoop(
                      [cells EXCEPT ![r + 1][c + 1] =
                           CellUpdateHighlight(@, state)],
                      coords, state, i + 1)

set_cells_highlight(v, coords, state) == HighlightLoop(v.cells, coords, state, 1)

\* View.adjust_grid_size(new_num_rows, new_num_cols): the Cell objects after
\* the rows, then the columns, were added or removed.
ViewAdjustCells(cells, old_num_rows, old_num_cols, new_num_rows, new_num_cols) ==
    LET rows_done ==
            IF new_num_rows > old_num_rows
            THEN cells \o [i \in 1..(new_num_rows - old_num_rows) |->
                              [c \in 1..old_num_cols |-> NewCell]]
            ELSE IF new_num_rows < old_num_rows
            THEN SubSeq(cells, 1, new_num_rows)
            ELSE cells
    IN  IF new_num_cols > old_num_cols
        THEN [r \in DOMAIN rows_done |->
                 IF r <= new_num_rows
                 THEN rows_done[r] \o [c \in 1..(new_num_cols - old_num_cols)
                                          |-> NewCell]
                 ELSE rows_done[r]]
        ELSE IF new_num_cols < old_num_cols
        THEN [r \in DOMAIN rows_done |->
                 IF r <= new_num_rows
                 THEN SubSeq(rows_done[r], 1, new_num_cols)
                 ELSE rows_done[r]]
        ELSE rows_done

\* The text of the population label: population, total_cells and the
\* percentage in tenths as "{:.1f}" prints it (rounded half to even), or
\* the ZeroDivisionError of population / total_cells.
Divide1000(pop, total) ==
    IF total = 0 THEN [raised |-> "ZeroDivisionError", tenths |-> 0]
    ELSE LET q == (1000 * pop) \div total
             rem == (1000 * pop) % total
         IN  [raised |-> "none",
              tenths |-> IF 2 * rem > total \/ (2 * rem = total /\ q % 2 = 1)
                         THEN q + 1 ELSE q]

\* population_percentage without the total_cells == 0 branch.
PopulationPercentageUnguarded(pop, total) == Divide1000(pop, total)

\* Controller._update_population_label_value: the percentage.
PopulationPercentage(pop, total) ==
    IF total = 0 THEN [raised |-> "none", tenths |-> 0]
    ELSE Divide1000(pop, total)

(***************************************************************************)
(* Controller: the event handlers.  Pixels are scaled down: a cell is      *)
(* 1..MaxCellSize pixels wide and the canvas 1..MaxCanvas pixels each way, *)
(* so that the grid has 0..MaxCanvas rows and columns.  The colours, the   *)
(* frame rate, the grid lines and the help window are left out.            *)
(***************************************************************************)

\* self.shapes, in the order of the dict.
ShapeNames == <<"Cell", "Glider", "Glider gun", "Heart">>

shapes ==
    [name \in {"Cell", "Glider", "Glider gun", "Heart"} |->
        CASE name = "Cell" -> << <<0, 0>> >>
          [] name = "Glider" ->
                << <<2, 0>>, <<2, 1>>, <<2, 2>>, <<1, 2>>, <<0, 1>> >>
          [] name = "Glider gun" ->
                << <<4, 0>>, <<5, 0>>, <<4, 1>>, <<5, 1>>,
                   <<4, 10>>, <<5, 10>>, <<6, 10>>, <<3, 11>>, <<7, 11>>,
                   <<2, 12>>, <<8, 12>>, <<2, 13>>, <<8, 13>>, <<5, 14>>,
                   <<3, 15>>, <<7, 15>>, <<4, 16>>, <<5, 16>>, <<6, 16>>,
                   <<5, 17>>,
                   <<2, 20>>, <<3, 20>>, <<4, 20>>, <<2, 21>>, <<3, 21>>,
                   <<4, 21>>, <<1, 22>>, <<5, 22>>, <<0, 24>>, <<1, 24>>,
                   <<5, 24>>, <<6, 24>>,
                   <<2, 34>>, <<3, 34>>, <<2, 35>>, <<3, 35>> >>
          [] name = "Heart" ->
                << <<0, 2>>, <<0, 3>>, <<1, 4>>, <<0, 5>>, <<0, 6>>,
                   <<1, 7>>, <<2, 8>>, <<3, 8>>, <<4, 8>>, <<5, 7>>,
                   <<6, 6>>, <<7, 5>>, <<8, 4>>, <<7, 3>>, <<6, 2>>,
                   <<5, 1>>, <<4, 0>>, <<3, 0>>, <<2, 0>>, <<1, 1>> >>]

\* keys[(keys.index(self.shape) + delta) % len(self.shapes)]
CycleShape(shape, delta) ==
    LET index == CHOOSE i \in 1..Len(ShapeNames) : ShapeNames[i] = shape
    IN  ShapeNames[((index - 1 + delta) % Len(ShapeNames)) + 1]

\* _get_affected_pixels that appends a pixel outside the grid as it is when
\* wrap is on.
RECURSIVE AffectedLoopNoModulo(_, _, _, _, _, _, _)
AffectedLoopNoModulo(rows, cols, w, row, col, figure, i) ==
    IF i > Len(figure) THEN <<>>
    ELSE LET new_row == row + figure[i][1]
             new_col == col + figure[i][2]
             rest == AffectedLoopNoModulo(rows, cols, w, row, col, figure, i + 1)
         IN  IF 0 <= new_row /\ new_row < rows /\ 0 <= new_col /\ new_col < cols
             THEN <<(<<new_row, new_col>>)>> \o rest
             ELSE IF w
             THEN <<(<<new_row, new_col>>)>> \o rest
             ELSE rest

\* The loop of _get_affected_pixels over figure, from index i on; rows, cols
\* and w are the controller's num_rows, num_cols and wrap.  It is called
\* with the cursor cell inside the grid only, so rows and cols are not 0.
RECURSIVE AffectedLoop(_, _, _, _, _, _, _)
AffectedLoop(rows, cols, w, row, col, figure, i) ==
    IF i > Len(figure) THEN <<>>
    ELSE LET new_row == row + figure[i][1]
             new_col == col + figure[i][2]
             rest == AffectedLoop(rows, cols, w, row, col, figure, i + 1)
         IN  IF 0 <= new_row /\ new_row < rows /\ 0 <= new_col /\ new_col < cols
             THEN <<(<<new_row, new_col>>)>> \o rest
             ELSE IF w
             THEN <<(<<new_row % rows, new_col % cols>>)>> \o rest
             ELSE rest

\* Controller._get_affected_pixels(row, col, figure) of controller c.
get_affected_pixels(c, row, col, figure) ==
    AffectedLoop(c.num_rows, c.num_cols, c.wrap, row, col, figure, 1)

\* 0 <= row < self.num_rows and 0 <= col < self.num_cols
InGrid(c, row, col) ==
    0 <= row /\ row < c.num_rows /\ 0 <= col /\ col < c.num_cols

\* What _update_population_label_value writes into the label, and the
\* exception it ends with.
PopulationLabel(pop, total) ==
    LET p == PopulationPercentage(pop, total)
    IN  [population |-> pop, total_cells |-> total, tenths |-> p.tenths,
         raised |-> p.raised]

\* The label text without the raised field.
LabelText(label) ==
    [population |-> label.population, total_cells |-> label.total_cells,
     tenths |-> label.tenths]

\* _unhighlight_highlighted_cells: the cells of the view, the exception and
\* highlighted_cells, which is emptied only when the loop came to its end.
Unhighlight(c, v) ==
    LET h == set_cells_highlight(v, c.highlighted_cells, FALSE)
    IN  [cells |-> h.cells, raised |-> h.raised,
         highlighted_cells |-> IF h.raised = "none" THEN <<>>
                               ELSE c.highlighted_cells]

\* The record of the handler that ran last: its name, the calls it made on
\* the model and the view, in order, and the exception it ended with; steps
\* counts the calls of Model.step() since the last call of Model.clear() or
\* Model.randomize(), or since the construction.
Handled(name, calls, raised) ==
    [name |-> name, calls |-> calls, raised |-> raised,
     steps |-> IF \E i \in DOMAIN calls :
                      calls[i] \in {"model.clear", "model.randomize"}
               THEN 0
               ELSE handler.steps
                    + Cardinality({i \in DOMAIN calls : calls[i] = "model.step"})]

\* Controller.__init__ with a canvas of canvas_height x canvas_width scaled
\* pixels and cells of one pixel, with the Model and the View it constructs,
\* up to the first self.step(), which only schedules the timer callback.
Controller_init(canvas_height, canvas_width) ==
    /\ Construct(canvas_height, canvas_width, GuiLiveState, TRUE, TRUE)
    /\ controller = [running |-> FALSE, wrap |-> TRUE, trace |-> TRUE,
                     cell_size |-> 1, canvas_width |-> canvas_width,
                     canvas_height |-> canvas_height,
                     num_rows |-> canvas_height, num_cols |-> canvas_width,
                     shape |-> "Cell", previous_cell |-> <<>>,
                     highlighted_cells |-> <<>>, generation |-> 0,
                     pending |-> 1]
    /\ view = [num_rows |-> canvas_height, num_cols |-> canvas_width,
               live_state |-> GuiLiveState,
               cells |-> NewCells(canvas_height, canvas_width),
               generation_value |-> 0,
               population_value |->
                   LabelText(PopulationLabel(0, canvas_height * canvas_width))]
    /\ handler = [name |-> "__init__", calls |-> <<>>, raised |-> "none",
                  steps |-> 0]

\* Controller.toggle_running
Controller_toggle_running ==
    /\ controller' = [controller EXCEPT !.running = ~@]
    /\ handler' = Handled("toggle_running", <<>>, "none")
    /\ UNCHANGED <<model_vars, view>>

\* step whose self.view.after(...) is not under `if not single_step`.
Controller_step_always_reschedules(single_step) ==
    /\ single_step \/ controller.pending > 0
    /\ IF controller.running \/ single_step
       THEN /\ step
            /\ LET u == update_all_cells(view, cell_states')
                   label == PopulationLabel(population', total_cells')
                   drawn == u.raised = "none"
                   done == drawn /\ label.raised = "none"
               IN  /\ view' = [view EXCEPT
                          !.cells = u.cells,
                          !.generation_value =
                              IF drawn THEN controller.generation + 1 ELSE @,
                          !.population_value =
                              IF done THEN LabelText(label) ELSE @]
                   /\ controller' = [controller EXCEPT
                          !.generation = IF drawn THEN @ + 1 ELSE @,
                          !.pending = IF single_step /\ done THEN @ + 1
                                      ELSE IF done THEN @ ELSE @ - 1]
                   /\ handler' = Handled(
                          IF single_step THEN "single_step" ELSE "step",
                          <<"model.step", "model.get_cell_states",
                            "view.update_all_cells">>,
                          IF drawn THEN label.raised ELSE u.raised)
       ELSE /\ handler' = Handled("step", <<>>, "none")
            /\ UNCHANGED <<model_vars, controller, view>>

\* step without the `if self.running or single_step` test.
Controller_step_ignores_running(single_step) ==
    /\ single_step \/ controller.pending > 0
    /\ IF TRUE
       THEN /\ step
            /\ LET u == update_all_cells(view, cell_states')
                   label == PopulationLabel(population', total_cells')
                   drawn == u.raised = "none"
                   done == drawn /\ label.raised = "none"
               IN  /\ view' = [view EXCEPT
                          !.cells = u.cells,
                          !.generation_value =
                              IF drawn THEN controller.generation + 1 ELSE @,
                          !.population_value =
                              IF done THEN LabelText(label) ELSE @]
                   /\ controller' = [controller EXCEPT
                          !.generation = IF drawn THEN @ + 1 ELSE @,
                          !.pending = IF single_step \/ done THEN @ ELSE @ - 1]
                   /\ handler' = Handled(
                          IF single_step THEN "single_step" ELSE "step",
                          <<"model.step", "model.get_cell_states",
                            "view.update_all_cells">>,
                          IF drawn THEN label.raised ELSE u.raised)
       ELSE /\ handler' = Handled("step", <<>>, "none")
            /\ UNCHANGED <<model_vars, controller, view>>

\* Controller.step(single_step): the timer callback (single_step False),
\* which takes the pending callback and schedules the next one as its last
\* statement, or the body of Controller.single_step.
Controller_step(single_step) ==
    /\ single_step \/ controller.pending > 0
    /\ IF controller.running \/ single_step
       THEN /\ step
            /\ LET u == update_all_cells(view, cell_states')
                   label == PopulationLabel(population', total_cells')
                   drawn == u.raised = "none"
                   done == drawn /\ label.raised = "none"
               IN  /\ view' = [view EXCEPT
                          !.cells = u.cells,
                          !.generation_value =
                              IF drawn THEN controller.generation + 1 ELSE @,
                          !.population_value =
                              IF done THEN LabelText(label) ELSE @]
                   /\ controller' = [controller EXCEPT
                          !.generation = IF drawn THEN @ + 1 ELSE @,
                          !.pending = IF single_step \/ done THEN @ ELSE @ - 1]
                   /\ handler' = Handled(
                          IF single_step THEN "single_step" ELSE "step",
                          <<"model.step", "model.get_cell_states",
                            "view.update_all_cells">>,
                          IF drawn THEN label.raised ELSE u.raised)
       ELSE /\ handler' = Handled("step", <<>>, "none")
            /\ UNCHANGED <<model_vars, controller, view>>

\* clear that leaves the view as it was drawn.
Controller_clear_no_render ==
    /\ clear
    /\ LET label == PopulationLabel(population', total_cells')
       IN  /\ view' = [view EXCEPT
                  !.generation_value = 0,
                  !.population_value =
                      IF label.raised = "none" THEN LabelText(label) ELSE @]
           /\ controller' = [controller EXCEPT !.generation = 0]
           /\ handler' = Handled("clear", <<"model.clear">>, label.raised)

\* Controller.clear
Controller_clear ==
    /\ clear
    /\ LET u == update_all_cells(view, cell_states')
           label == PopulationLabel(population', total_cells')
           drawn == u.raised = "none"
       IN  /\ view' = [view EXCEPT
                  !.cells = u.cells,
                  !.generation_value = IF drawn THEN 0 ELSE @,
                  !.population_value =
                      IF drawn /\ label.raised = "none"
                      THEN LabelText(label) ELSE @]
           /\ controller' = [controller EXCEPT
                  !.generation = IF drawn THEN 0 ELSE @]
           /\ handler' = Handled("clear",
                  <<"model.clear", "model.get_cell_states",
                    "view.update_all_cells">>,
                  IF drawn THEN label.raised ELSE u.raised)

\* randomize without self.generation = 0.
Controller_randomize_keeps_generation ==
    /\ randomize
    /\ LET u == update_all_cells(view, cell_states')
           label == PopulationLabel(population', total_cells')
           drawn == u.raised = "none"
       IN  /\ view' = [view EXCEPT
                  !.cells = u.cells,
                  !.generation_value = @,
                  !.population_value =
                      IF drawn /\ label.raised = "none"
                      THEN LabelText(label) ELSE @]
           /\ controller' = [controller EXCEPT
                  !.generation = @]
           /\ handler' = Handled("randomize",
                  <<"model.randomize", "model.get_cell_states",
                    "view.update_all_cells">>,
                  IF drawn THEN label.raised ELSE u.raised)

\* Controller.randomize
Controller_randomize ==
    /\ randomize
    /\ LET u == update_all_cells(view, cell_states')
           label == PopulationLabel(population', total_cells')
           drawn == u.raised = "none"
       IN  /\ view' = [view EXCEPT
                  !.cells = u.cells,
                  !.generation_value = IF drawn THEN 0 ELSE @,
                  !.population_value =
                      IF drawn /\ label.raised = "none"
                      THEN LabelText(label) ELSE @]
           /\ controller' = [controller EXCEPT
                  !.generation = IF drawn THEN 0 ELSE @]
           /\ handler' = Handled("randomize",
                  <<"model.randomize", "model.get_cell_states",
                    "view.update_all_cells">>,
                  IF drawn THEN label.raised ELSE u.raised)

\* toggle_trace that forgets self.trace = not self.trace.
Controller_toggle_trace_model_only ==
    /\ toggle_trace
    /\ controller' = controller
    /\ view' = view
    /\ handler' = Handled("toggle_trace", <<"model.toggle_trace">>, "none")

\* Controller.toggle_trace
Controller_toggle_trace ==
    /\ toggle_trace
    /\ controller' = [controller EXCEPT !.trace = ~@]
    /\ IF ~controller'.trace
       THEN LET u == update_all_cells(view, cell_states')
            IN  /\ view' = [view EXCEPT !.cells = u.cells]
                /\ handler' = Handled("toggle_trace",
                       <<"model.toggle_trace", "model.get_cell_states",
                         "view.update_all_cells">>, u.raised)
       ELSE /\ view' = view
            /\ handler' = Handled("toggle_trace", <<"model.toggle_trace">>,
                                  "none")

\* Controller.update_shape(shape)
Controller_update_shape(shape) ==
    /\ controller' = [controller EXCEPT !.shape = shape]
    /\ handler' = Handled("update_shape", <<>>, "none")
    /\ UNCHANGED <<model_vars, view>>

\* Controller.toggle_wrap(event): event is <<>> for the checkbutton command
\* (event=None) and the pointer's <<x, y>> for the "w" key.
Controller_toggle_wrap(event) ==
    /\ toggle_wrap
    /\ LET c == [controller EXCEPT !.wrap = ~@]
           row == event[2] \div c.cell_size
           col == event[1] \div c.cell_size
       IN  IF event # <<>> /\ InGrid(c, row, col)
           THEN LET u == Unhighlight(c, view)
                    affected_cells ==
                        get_affected_pixels(c, row, col, shapes[c.shape])
                    h == set_cells_highlight([view EXCEPT !.cells = u.cells],
                                             affected_cells, TRUE)
                IN  IF u.raised # "none"
                    THEN /\ controller' = c
                         /\ view' = [view EXCEPT !.cells = u.cells]
                         /\ handler' = Handled("toggle_wrap",
                                <<"model.toggle_wrap",
                                  "view.set_cells_highlight">>, u.raised)
                    ELSE /\ controller' = [c EXCEPT !.highlighted_cells =
                                IF h.raised = "none" THEN affected_cells
                                ELSE <<>>]
                         /\ view' = [view EXCEPT !.cells = h.cells]
                         /\ handler' = Handled("toggle_wrap",
                                <<"model.toggle_wrap",
                                  "view.set_cells_highlight",
                                  "view.set_cells_highlight">>, h.raised)
           ELSE /\ controller' = c
                /\ view' = view
                /\ handler' = Handled("toggle_wrap", <<"model.toggle_wrap">>,
                                      "none")

\* Controller.adjust_cell_size(new_cell_size): the cell-size scale.
Controller_adjust_cell_size(new_cell_size) ==
    LET c == [controller EXCEPT
                 !.cell_size = new_cell_size,
                 !.num_rows = controller.canvas_height \div new_cell_size,
                 !.num_cols = controller.canvas_width \div new_cell_size]
    IN  /\ controller' = c
        /\ adjust_grid_size(c.num_rows, c.num_cols)
        /\ LET label == PopulationLabel(population', total_cells')
           IN  /\ view' = [view EXCEPT
                      !.num_rows = c.num_rows,
                      !.num_cols = c.num_cols,
                      !.cells = ViewAdjustCells(view.cells, view.num_rows,
                                    view.num_cols, c.num_rows, c.num_cols),
                      !.population_value =
                          IF label.raised = "none" THEN LabelText(label)
                          ELSE @]
               /\ handler' = Handled("adjust_cell_size",
                      <<"model.adjust_grid_size", "view.adjust_cell_size">>,
                      label.raised)

\* Controller.adjust_grid_size(event): the canvas was resized to
\* event.height x event.width.
Controller_adjust_grid_size(height, width) ==
    LET c == [controller EXCEPT
                 !.canvas_height = height,
                 !.canvas_width = width,
                 !.num_rows = height \div controller.cell_size,
                 !.num_cols = width \div controller.cell_size]
    IN  /\ controller' = c
        /\ adjust_grid_size(c.num_rows, c.num_cols)
        /\ LET label == PopulationLabel(population', total_cells')
           IN  /\ view' = [view EXCEPT
                      !.num_rows = c.num_rows,
                      !.num_cols = c.num_cols,
                      !.cells = ViewAdjustCells(view.cells, view.num_rows,
                                    view.num_cols, c.num_rows, c.num_cols),
                      !.population_value =
                          IF label.raised = "none" THEN LabelText(label)
                          ELSE @]
               /\ handler' = Handled("adjust_grid_size",
                      <<"model.adjust_grid_size", "view.adjust_grid_size">>,
                      label.raised)

\* Controller._cycle_through_shapes(event): the mouse wheel, delta 1 or -1,
\* with the pointer at pixel (x, y).
Controller_cycle_through_shapes(delta, x, y) ==
    /\ LET c == [controller EXCEPT !.shape = CycleShape(@, delta)]
           row == y \div c.cell_size
           col == x \div c.cell_size
       IN  IF InGrid(c, row, col)
           THEN LET affected_cells ==
                        get_affected_pixels(c, row, col, shapes[c.shape])
                    u == Unhighlight(c, view)
                    h == set_cells_highlight([view EXCEPT !.cells = u.cells],
                                             affected_cells, TRUE)
                IN  IF u.raised # "none"
                    THEN /\ controller' = c
                         /\ view' = [view EXCEPT !.cells = u.cells]
                         /\ handler' = Handled("_cycle_through_shapes",
                                <<"view.set_cells_highlight">>, u.raised)
                    ELSE /\ controller' = [c EXCEPT !.highlighted_cells =
                                IF h.raised = "none" THEN affected_cells
                                ELSE <<>>]
                         /\ view' = [view EXCEPT !.cells = h.cells]
                         /\ handler' = Handled("_cycle_through_shapes",
                                <<"view.set_cells_highlight",
                                  "view.set_cells_highlight">>, h.raised)
           ELSE /\ controller' = c
                /\ view' = view
                /\ handler' = Handled("_cycle_through_shapes", <<>>, "none")
    /\ UNCHANGED model_vars

\* Controller._clear_hover_state: the pointer left the canvas.
Controller_clear_hover_state ==
    /\ LET u == Unhighlight(controller, view)
       IN  /\ controller' = [controller EXCEPT
                  !.highlighted_cells = u.highlighted_cells,
                  !.previous_cell = IF u.raised = "none" THEN <<>> ELSE @]
           /\ view' = [view EXCEPT !.cells = u.cells]
           /\ handler' = Handled("_clear_hover_state",
                  <<"view.set_cells_highlight">>, u.raised)
    /\ UNCHANGED model_vars

\* Controller._mouse_click_handler(event): button num (1 left, 2 middle,
\* 3 right) pressed with the pointer at pixel (x, y).
Controller_mouse_click_handler(x, y, num) ==
    LET row == y \div controller.cell_size
        col == x \div controller.cell_size
        affected_cells == get_affected_pixels(controller, row, col,
                                              shapes[controller.shape])
    IN  /\ controller' = controller
        /\ IF InGrid(controller, row, col) /\ num # 2
           THEN /\ set_cells_state_unchecked(affected_cells, num = 1)
                /\ LET set == lastOp'.name = "set_cells_state"
                       g == update_given_cells(view, view.live_state,
                                               affected_cells, num = 1)
                       label == PopulationLabel(population', total_cells')
                   IN  /\ view' = [view EXCEPT
                              !.cells = IF set THEN g.cells ELSE @,
                              !.population_value =
                                  IF set /\ g.raised = "none"
                                         /\ label.raised = "none"
                                  THEN LabelText(label) ELSE @]
                       /\ handler' = Handled("_mouse_click_handler",
                              IF set THEN <<"model.set_cells_state",
                                            "view.update_given_cells">>
                              ELSE <<"model.set_cells_state">>,
                              IF ~set THEN "IndexError"
                              ELSE IF g.raised # "none" THEN g.raised
                              ELSE label.raised)
           ELSE /\ UNCHANGED model_vars
                /\ LET label == PopulationLabel(population, total_cells)
                       inside == InGrid(controller, row, col)
                   IN  /\ view' = [view EXCEPT !.population_value =
                              IF inside /\ label.raised = "none"
                              THEN LabelText(label) ELSE @]
                       /\ handler' = Handled("_mouse_click_handler", <<>>,
                              IF inside THEN label.raised ELSE "none")

\* Controller._mouse_motion_handler(event): the pointer moved to pixel
\* (x, y) with no button, the left or the right button held
\* (event.state & 0xff00 is 0, 0x0100 or 0x0400).
Controller_mouse_motion_handler(x, y, buttons) ==
    LET row == y \div controller.cell_size
        col == x \div controller.cell_size
        cell == <<row, col>>
    IN  IF InGrid(controller, row, col)
        THEN IF cell # controller.previous_cell
             THEN LET affected_cells ==
                          get_affected_pixels(controller, row, col,
                                              shapes[controller.shape])
                      u == Unhighlight(controller, view)
                      draws == u.raised = "none" /\ buttons # "none"
                  IN  /\ IF draws
                         THEN set_cells_state_unchecked(affected_cells,
                                                        buttons = "left")
                         ELSE UNCHANGED model_vars
                      /\ LET set == ~draws \/ lastOp'.name = "set_cells_state"
                             g == IF draws /\ set
                                  THEN update_given_cells(
                                           [view EXCEPT !.cells = u.cells],
                                           view.live_state, affected_cells,
                                           buttons = "left")
                                  ELSE [cells |-> u.cells, raised |-> "none"]
                             label == PopulationLabel(population',
                                                      total_cells')
                             labelled == /\ u.raised = "none" /\ set
                                         /\ g.raised = "none"
                                         /\ label.raised = "none"
                             h == IF labelled
                                  THEN set_cells_highlight(
                                           [view EXCEPT !.cells = g.cells],
                                           affected_cells, TRUE)
                                  ELSE [cells |-> g.cells, raised |-> "none"]
                         IN  /\ controller' = [controller EXCEPT
                                    !.previous_cell = cell,
                                    !.highlighted_cells =
                                        IF labelled /\ h.raised = "none"
                                        THEN affected_cells
                                        ELSE u.highlighted_cells]
                             /\ view' = [view EXCEPT
                                    !.cells = h.cells,
                                    !.population_value =
                                        IF labelled THEN LabelText(label)
                                        ELSE @]
                             /\ handler' = Handled("_mouse_motion_handler",
                                    (<<"view.set_cells_highlight">>)
                                    \o (IF draws
                                        THEN <<"model.set_cells_state">>
                                        ELSE <<>>)
                                    \o (IF draws /\ set
                                        THEN <<"view.update_given_cells">>
                                        ELSE <<>>)
                                    \o (IF labelled
                                        THEN <<"view.set_cells_highlight">>
                                        ELSE <<>>),
                                    IF u.raised # "none" THEN u.raised
                                    ELSE IF ~set THEN "IndexError"
                                    ELSE IF g.raised # "none" THEN g.raised
                                    ELSE IF label.raised # "none"
                                    THEN label.raised
                                    ELSE h.raised)
             ELSE /\ handler' = Handled("_mouse_motion_handler", <<>>, "none")
                  /\ UNCHANGED <<model_vars, controller, view>>
        ELSE /\ LET u == Unhighlight(controller, view)
                IN  /\ controller' = [controller EXCEPT
                           !.highlighted_cells = u.highlighted_cells,
                           !.previous_cell =
                               IF u.raised = "none" THEN <<>> ELSE @]
                    /\ view' = [view EXCEPT !.cells = u.cells]
                    /\ handler' = Handled("_mouse_motion_handler",
                           <<"view.set_cells_highlight">>, u.raised)
             /\ UNCHANGED model_vars

\* The pixels of a canvas side of n pixels.
Pixels(n) == 0..(n - 1)

\* The bound on the generation counter: a call of Controller.step that
\* advances the game is explored only while generation is below max.
StepsWithin(single_step, max) ==
    (controller.running \/ single_step) => controller.generation < max

(***************************************************************************)
(* SpecDraw: the handlers that change or draw the cells, on a canvas of    *)
(* up to MaxCanvas x NarrowCanvas pixels with the "Cell" shape: the timer  *)
(* tick of the paused game, single step, clear, randomize, the trace and   *)
(* wrap checkbuttons, the cell-size scale, a canvas resize, a click and a  *)
(* drag.  Play/pause is in SpecTimer.                                      *)
(***************************************************************************)

InitDraw == Controller_init(MaxCanvas, NarrowCanvas)

NextDraw ==
    \/ \E single_step \in BOOLEAN :
           /\ StepsWithin(single_step, MaxGeneration)
           /\ Controller_step(single_step)
    \/ Controller_clear
    \/ Controller_randomize
    \/ Controller_toggle_trace
    \/ Controller_toggle_wrap(<<>>)
    \/ \E new_cell_size \in 1..MaxCellSize :
           Controller_adjust_cell_size(new_cell_size)
    \/ \E height \in 1..MaxCanvas, width \in 1..NarrowCanvas :
           Controller_adjust_grid_size(height, width)
    \/ \E x \in Pixels(NarrowCanvas), y \in Pixels(MaxCanvas), num \in {1, 3} :
           Controller_mouse_click_handler(x, y, num)
    \/ \E x \in Pixels(NarrowCanvas), y \in Pixels(MaxCanvas),
          buttons \in {"left", "right"} :
           Controller_mouse_motion_handler(x, y, buttons)

SpecDraw == InitDraw /\ [][NextDraw]_vars

(***************************************************************************)
(* SpecHover: the pointer moves over a canvas of up to MaxCanvas x         *)
(* NarrowCanvas pixels with no button held, the wheel cycles through the   *)
(* shapes, and the grid is resized under the highlight.                    *)
(***************************************************************************)

\* adjust_color_brightness applied n times to color.
RECURSIVE AdjustedTimes(_, _)
AdjustedTimes(color, n) ==
    IF n = 0 THEN color
    ELSE AdjustedTimes(adjust_color_brightness(color), n - 1)

\* The handlers that highlight run while every Cell of the view shows a
\* colour of the colour map adjusted at most max times: each highlight of
\* a shape wrapped onto itself adjusts the colours further, without end.
ColorsWithin(max) ==
    \A r \in DOMAIN view.cells : \A c \in DOMAIN view.cells[r] :
        \E cell_state \in 0..GuiLiveState, n \in 0..max :
            view.cells[r][c].color = AdjustedTimes(color_map(cell_state), n)

InitHover == Controller_init(MaxCanvas, NarrowCanvas)

NextHover ==
    \/ \E event \in {<<>>} \cup (Pixels(NarrowCanvas) \X Pixels(MaxCanvas)) :
           /\ event # <<>> => ColorsWithin(MaxAdjustments)
           /\ Controller_toggle_wrap(event)
    \/ \E new_cell_size \in 1..MaxCellSize :
           Controller_adjust_cell_size(new_cell_size)
    \/ \E height \in 1..MaxCanvas, width \in 1..NarrowCanvas :
           Controller_adjust_grid_size(height, width)
    \/ \E delta \in {1, -1}, x \in Pixels(NarrowCanvas), y \in Pixels(MaxCanvas) :
           /\ ColorsWithin(MaxAdjustments)
           /\ Controller_cycle_through_shapes(delta, x, y)
    \/ \E x \in Pixels(NarrowCanvas), y \in Pixels(MaxCanvas) :
           /\ ColorsWithin(MaxAdjustments)
           /\ Controller_mouse_motion_handler(x, y, "none")
    \/ Controller_clear_hover_state

SpecHover == InitHover /\ [][NextHover]_vars

(***************************************************************************)
(* SpecShapes: every shape of the drawing tool is clicked onto a canvas of *)
(* up to MaxCanvas x MaxCanvas pixels; the pointer's motion is left out.   *)
(***************************************************************************)

InitShapes == Controller_init(MaxCanvas, MaxCanvas)

NextShapes ==
    \/ \E shape \in DOMAIN shapes : Controller_update_shape(shape)
    \/ Controller_toggle_wrap(<<>>)
    \/ \E new_cell_size \in 1..MaxCellSize :
           Controller_adjust_cell_size(new_cell_size)
    \/ \E height \in 1..MaxCanvas, width \in 1..MaxCanvas :
           Controller_adjust_grid_size(height, width)
    \/ \E x \in Pixels(MaxCanvas), y \in Pixels(MaxCanvas), num \in 1..3 :
           Controller_mouse_click_handler(x, y, num)

SpecShapes == InitShapes /\ [][NextShapes]_vars

(***************************************************************************)
(* SpecTimer: the game loop on a canvas of NarrowCanvas x NarrowCanvas     *)
(* pixels: timer ticks, play/pause and single steps, counted up to         *)
(* generation TimerMaxGeneration, between clears, randomizes, clicks,      *)
(* drags, resizes and the wrap and trace checkbuttons.                     *)
(***************************************************************************)

InitTimer == Controller_init(NarrowCanvas, NarrowCanvas)

NextTimer ==
    \/ Controller_toggle_running
    \/ \E single_step \in BOOLEAN :
           /\ StepsWithin(single_step, TimerMaxGeneration)
           /\ Controller_step(single_step)
    \/ Controller_clear
    \/ Controller_randomize
    \/ Controller_toggle_trace
    \/ Controller_toggle_wrap(<<>>)
    \/ \E new_cell_size \in 1..MaxCellSize :
           Controller_adjust_cell_size(new_cell_size)
    \/ \E height \in 1..NarrowCanvas, width \in 1..NarrowCanvas :
           Controller_adjust_grid_size(height, width)
    \/ \E x \in Pixels(NarrowCanvas), y \in Pixels(NarrowCanvas),
          num \in {1, 3} :
           Controller_mouse_click_handler(x, y, num)
    \/ \E x \in Pixels(NarrowCanvas), y \in Pixels(NarrowCanvas),
          buttons \in {"left", "right"} :
           Controller_mouse_motion_handler(x, y, buttons)

SpecTimer == InitTimer /\ [][NextTimer]_vars

(***************************************************************************)
(* Reference definitions the properties are stated with                    *)
(***************************************************************************)

\* The 1-based positions the stored grid physically holds.
CellsOf(grid) == UNION {{<<r, c>> : c \in DOMAIN grid[r]} : r \in DOMAIN grid}

\* The positions whose value equals ls.
LiveSet(grid, ls) == {p \in CellsOf(grid) : grid[p[1]][p[2]] = ls}

\* The 8 offsets (d_row, d_col) # (0, 0).
Offsets == ({-1, 0, 1} \X {-1, 0, 1}) \ {<<0, 0>>}

\* One axis resolved on its own: the index itself when in range, the index
\* modulo the dimension when out of range with wrap, -1 (skipped) otherwise.
ResolveAxis(x, n, w) ==
    IF 0 <= x /\ x < n THEN x ELSE IF w THEN x % n ELSE -1

\* The reference neighbour count at the 0-based (row, col).
RefNeighborCount(grid, rows, cols, ls, w, row, col) ==
    Cardinality({d \in Offsets :
        LET nr == ResolveAxis(row + d[1], rows, w)
            nc == ResolveAxis(col + d[2], cols, w)
        IN  nr >= 0 /\ nc >= 0 /\ grid[nr + 1][nc + 1] = ls})

\* The birth/survival rule on the grid as it is before the step.
RefBecomesLive(grid, rows, cols, ls, w, row, col) ==
    LET v == grid[row + 1][col + 1]
        n == RefNeighborCount(grid, rows, cols, ls, w, row, col)
    IN  \/ v = ls /\ n \in {2, 3}
        \/ v < ls /\ n = 3

IsFading(v, ls) == 0 < v /\ v < ls

(***************************************************************************)
(* C1..C10                                                                 *)
(***************************************************************************)

\* C1: in every reachable state population equals the number of cells whose
\* value equals live_state.
C1_PopulationIsLiveCount ==
    population = Cardinality(LiveSet(cell_states, live_state))

\* C1 witness: a resize has just dropped cells and live cells remain next to
\* a fading one.
C1_Witness ==
    /\ lastOp.name = "adjust_grid_size"
    /\ lastOp.changed
    /\ population >= 1
    /\ \E p \in CellsOf(cell_states) :
           IsFading(cell_states[p[1]][p[2]], live_state)

\* C2: in every reachable state every cell value v satisfies
\* 0 <= v <= live_state.
C2_CellValuesInRange ==
    \A p \in CellsOf(cell_states) :
        0 <= cell_states[p[1]][p[2]] /\ cell_states[p[1]][p[2]] <= live_state

\* C2 witness: after a step with trace on, the grid holds a dead cell, a
\* fading cell and a live cell at once.
C2_Witness ==
    /\ lastOp.name = "step"
    /\ \E p, q, u \in CellsOf(cell_states) :
           /\ cell_states[p[1]][p[2]] = 0
           /\ IsFading(cell_states[q[1]][q[2]], live_state)
           /\ cell_states[u[1]][u[2]] = live_state

\* C3: across every step() transition a cell is live_state afterwards
\* exactly when, counting neighbours on the grid before the step, it was
\* live_state with 2 or 3 live neighbours or below live_state with exactly 3.
C3_StepRule ==
    [][lastOp'.name = "step" =>
         \A p \in CellsOf(cell_states') :
             (cell_states'[p[1]][p[2]] = live_state)
             <=> RefBecomesLive(cell_states, num_rows, num_cols, live_state,
                                wrap, p[1] - 1, p[2] - 1)]_vars

\* C3 witness: a step has just made some cell live and let another die.
C3_Witness ==
    /\ lastOp.name = "step"
    /\ population >= 1
    /\ \E p \in CellsOf(age) : age[p[1]][p[2]] = 1

\* C4: across every step() transition a cell that is not made live_state
\* becomes max(v - 1, 1) when trace is on and its old value v is nonzero,
\* and 0 otherwise; a live cell with no live neighbours becomes 0 with trace
\* off and live_state - 1 with trace on.
C4_FadeRule ==
    [][lastOp'.name = "step" =>
         \A p \in CellsOf(cell_states') :
             LET v == cell_states[p[1]][p[2]]
                 v2 == cell_states'[p[1]][p[2]]
             IN  /\ v2 # live_state =>
                        v2 = (IF trace /\ v # 0 THEN Max(v - 1, 1) ELSE 0)
                 /\ (v = live_state
                     /\ RefNeighborCount(cell_states, num_rows, num_cols,
                                         live_state, wrap,
                                         p[1] - 1, p[2] - 1) = 0)
                    => v2 = (IF trace THEN live_state - 1 ELSE 0)]_vars

\* C4 witness: a step with trace on has just turned a live cell into
\* live_state - 1 while another cell rests at the floor value 1.
C4_Witness ==
    /\ lastOp.name = "step"
    /\ trace
    /\ live_state > 2
    /\ \E p, q \in CellsOf(cell_states) :
           /\ age[p[1]][p[2]] = 1
           /\ cell_states[p[1]][p[2]] = live_state - 1
           /\ age[q[1]][q[2]] = live_state
           /\ cell_states[q[1]][q[2]] = 1

\* C5: with trace on, a cell that died j step() calls ago (the dying step
\* included; j saturates at live_state) and has since been neither reborn
\* nor edited, resized away, cleared or randomized holds
\* max(live_state - j, 1); and a step() with trace on never turns a nonzero
\* cell into 0.
C5_TraceDecay ==
    /\ [](\A p \in CellsOf(age) :
              age[p[1]][p[2]] >= 1 =>
                  /\ trace
                  /\ cell_states[p[1]][p[2]]
                         = Max(live_state - age[p[1]][p[2]], 1))
    /\ [][(lastOp'.name = "step" /\ trace) =>
              \A p \in CellsOf(cell_states) :
                  cell_states[p[1]][p[2]] # 0
                      => cell_states'[p[1]][p[2]] # 0]_vars

\* C5 witness: with live_state 4 a cell has decayed 3, 2, 1 and then stayed
\* at 1 for a further step.
C5_Witness ==
    /\ lastOp.name = "step"
    /\ trace
    /\ live_state = 4
    /\ \E p \in CellsOf(age) :
           /\ age[p[1]][p[2]] = live_state
           /\ cell_states[p[1]][p[2]] = 1

\* C6: across every toggle_trace() transition trace is flipped and
\* population is unchanged; going from true to false every cell with
\* 0 < value < live_state becomes 0 and every other cell keeps its value;
\* going from false to true no cell changes.
C6_ToggleTrace ==
    [][lastOp'.name = "toggle_trace" =>
         /\ trace' = ~trace
         /\ population' = population
         /\ CellsOf(cell_states') = CellsOf(cell_states)
         /\ \A p \in CellsOf(cell_states) :
                LET v == cell_states[p[1]][p[2]]
                IN  cell_states'[p[1]][p[2]] =
                        (IF trace /\ IsFading(v, live_state) THEN 0 ELSE v)
      ]_vars

\* C6 witness: toggle_trace has just switched trace off, collapsing at least
\* one fading cell while live cells stay.
C6_Witness ==
    /\ lastOp.name = "toggle_trace"
    /\ lastOp.changed
    /\ ~trace
    /\ population >= 1

\* C7: in every reachable state in which trace is false no cell holds a
\* value strictly between 0 and live_state.
C7_NoFadingWithoutTrace ==
    ~trace => \A p \in CellsOf(cell_states) :
                  ~IsFading(cell_states[p[1]][p[2]], live_state)

\* C7 witness: a step with trace off has just killed every live cell and
\* left no trail.
C7_Witness ==
    /\ lastOp.name = "step"
    /\ lastOp.changed
    /\ ~trace
    /\ population = 0
    /\ CellsOf(cell_states) # {}

\* The 5x5 grid whose live cells are (0,0) and (4,4).
CornersGrid(ls) ==
    [r \in 1..5 |-> [c \in 1..5 |->
        IF (r = 1 /\ c = 1) \/ (r = 5 /\ c = 5) THEN ls ELSE 0]]

\* C8: at every cell of every reachable grid _count_live_neighbors equals
\* the reference count over the 8 offsets, each axis resolved on its own
\* (skipped without wrap, modulo the dimension with wrap); and on the 5x5
\* grid whose live cells are (0,0) and (4,4) the count at (0,0) is 1 with
\* wrap and 0 without.
C8_NeighborCount ==
    /\ \A rc \in Coords(num_rows, num_cols) :
           count_live_neighbors(cell_states, num_rows, num_cols, live_state,
                                wrap, rc[1], rc[2])
           = RefNeighborCount(cell_states, num_rows, num_cols, live_state,
                              wrap, rc[1], rc[2])
    /\ count_live_neighbors(CornersGrid(live_state), 5, 5, live_state,
                            TRUE, 0, 0) = 1
    /\ count_live_neighbors(CornersGrid(live_state), 5, 5, live_state,
                            FALSE, 0, 0) = 0

\* C8 witness: on a wrapped 3x3 grid whose only live cell is the opposite
\* corner (2,2), the count at (0,0) is 1: both axes wrapped.
C8_Witness ==
    /\ wrap
    /\ num_rows = 3
    /\ num_cols = 3
    /\ population = 1
    /\ cell_states[3][3] = live_state
    /\ count_live_neighbors(cell_states, num_rows, num_cols, live_state,
                            wrap, 0, 0) = 1

\* The grid that agrees with grid on the cells equal to ls and holds k in
\* every other cell.
Refill(grid, ls, k) ==
    [r \in DOMAIN grid |-> [c \in DOMAIN grid[r] |->
        IF grid[r][c] = ls THEN ls ELSE k]]

\* C9: every reachable grid and each grid that agrees with it on the cells
\* equal to live_state but holds another value k < live_state in all other
\* cells give the same _count_live_neighbors at every cell, and step() makes
\* the same set of cells live_state in both.
C9_FadingNeverCounts ==
    LET counts == [rc \in Coords(num_rows, num_cols) |->
                      count_live_neighbors(cell_states, num_rows, num_cols,
                                           live_state, wrap, rc[1], rc[2])]
        nextLive == LiveSet(StepGrid(cell_states, num_rows, num_cols,
                                     live_state, wrap, trace), live_state)
    IN  \A k \in 0..(live_state - 1) :
            LET other == Refill(cell_states, live_state, k)
            IN  /\ \A rc \in Coords(num_rows, num_cols) :
                       count_live_neighbors(other, num_rows, num_cols,
                                            live_state, wrap, rc[1], rc[2])
                       = counts[rc]
                /\ LiveSet(StepGrid(other, num_rows, num_cols, live_state,
                                    wrap, trace), live_state)
                   = nextLive

\* C9 witness: with trace on, a fading cell has exactly 3 live neighbours
\* and lies next to another fading cell that is not counted.
C9_Witness ==
    /\ trace
    /\ \E rc \in Coords(num_rows, num_cols) :
           /\ IsFading(cell_states[rc[1] + 1][rc[2] + 1], live_state)
           /\ RefNeighborCount(cell_states, num_rows, num_cols, live_state,
                               wrap, rc[1], rc[2]) = 2
    /\ Cardinality({p \in CellsOf(cell_states) :
                       IsFading(cell_states[p[1]][p[2]], live_state)}) >= 2

\* The 1-based positions a coordinate list names.
Listed(cells) == {<<cells[i][1] + 1, cells[i][2] + 1>> : i \in 1..Len(cells)}

\* C10: from every reachable state and for every in-range coordinate list
\* and alive value, set_cells_state leaves every listed cell at live_state
\* (alive) or 0 (not alive) and every other cell unchanged, and population
\* grows by the number of distinct listed cells that were not live_state
\* (alive) or shrinks by the number that were exactly live_state (not alive).
C10_SetCellsState ==
    \A cells \in CoordLists(num_rows, num_cols), alive \in BOOLEAN :
        LET m == SetCellsResult(cell_states, population, live_state,
                                cells, alive)
            listed == Listed(cells)
            wasLive == {p \in listed : cell_states[p[1]][p[2]] = live_state}
        IN  /\ CellsOf(m.cells) = CellsOf(cell_states)
            /\ \A p \in CellsOf(cell_states) :
                   m.cells[p[1]][p[2]] =
                       (IF p \in listed
                        THEN (IF alive THEN live_state ELSE 0)
                        ELSE cell_states[p[1]][p[2]])
            /\ m.population =
                   (IF alive
                    THEN population + Cardinality(listed \ wasLive)
                    ELSE population - Cardinality(wasLive))

\* C10 witness: set_cells_state(cells, False) has just zeroed a cell while a
\* live cell and a fading cell it did not list remain.
C10_Witness ==
    /\ lastOp.name = "set_cells_state"
    /\ ~lastOp.alive
    /\ lastOp.changed
    /\ population >= 1
    /\ \E p \in CellsOf(cell_states) :
           IsFading(cell_states[p[1]][p[2]], live_state)

(***************************************************************************)
(* C11..C20                                                                *)
(***************************************************************************)

\* C11: set_cells_state is idempotent: from every reachable state and for
\* every in-range coordinate list and alive value, a second call with the
\* same arguments gives the same cells and the same population as the first.
C11_SetCellsIdempotent ==
    \A cells \in CoordLists(num_rows, num_cols), alive \in BOOLEAN :
        LET once == SetCellsResult(cell_states, population, live_state,
                                   cells, alive)
            twice == SetCellsResult(once.cells, once.population, live_state,
                                    cells, alive)
        IN  /\ twice.cells = once.cells
            /\ twice.population = once.population

\* A set_cells_state(cells, True) call that found every listed cell already
\* alive, as the second of two equal calls does, on a grid that also holds a
\* fading cell.
C11_Witness ==
    /\ lastOp.name = "set_cells_state"
    /\ lastOp.alive
    /\ ~lastOp.changed
    /\ population >= 2
    /\ \E p \in CellsOf(cell_states) :
           IsFading(cell_states[p[1]][p[2]], live_state)

\* The positions of a rows x cols grid.
Positions(rows, cols) == (1..rows) \X (1..cols)

\* C12: from every reachable state and for every new size (each axis grown,
\* shrunk or kept), adjust_grid_size gives a new_num_rows x new_num_cols grid
\* in which every cell inside both the old and the new bounds keeps its
\* value and every other cell is 0.
C12_AdjustKeepsOverlap ==
    \A new_num_rows \in 0..MaxRows, new_num_cols \in 0..MaxCols :
        LET m == AdjustResult(cell_states, population, live_state, num_rows,
                              num_cols, new_num_rows, new_num_cols)
        IN  /\ CellsOf(m.cells) = Positions(new_num_rows, new_num_cols)
            /\ \A p \in Positions(new_num_rows, new_num_cols) :
                   m.cells[p[1]][p[2]] =
                       IF p[1] <= Min(num_rows, new_num_rows)
                          /\ p[2] <= Min(num_cols, new_num_cols)
                       THEN cell_states[p[1]][p[2]]
                       ELSE 0

\* A resize that changed the grid and left a 2 x 1 grid holding a live cell
\* above a fading cell.
C12_Witness ==
    /\ lastOp.name = "adjust_grid_size"
    /\ lastOp.changed
    /\ num_rows = 2
    /\ num_cols = 1
    /\ cell_states[1][1] = live_state
    /\ IsFading(cell_states[2][1], live_state)

\* The 4 x 4 grid whose only live cell is (3, 3).
LoneCornerGrid(ls) ==
    [r \in 1..4 |-> [c \in 1..4 |-> IF r = 4 /\ c = 4 THEN ls ELSE 0]]

\* adjust_grid_size(r2, c2) followed by adjust_grid_size(r1, c1) on an
\* r1 x c1 grid.
ShrinkThenGrow(grid, pop, ls, r1, c1, r2, c2) ==
    LET small == AdjustResult(grid, pop, ls, r1, c1, r2, c2)
    IN  AdjustResult(small.cells, small.population, ls, r2, c2, r1, c1)

\* C13: from every reachable state and for every r2 <= num_rows and
\* c2 <= num_cols, shrinking to r2 x c2 and growing back leaves every cell
\* outside the r2 x c2 region 0 and population equal to the number of live
\* cells that were inside the region; and the 4 x 4 grid whose only live
\* cell is (3, 3), shrunk to 2 x 2, has population 0 and is all dead when
\* grown back.
C13_ShrinkDoesNotRestore ==
    /\ \A r2 \in 0..num_rows, c2 \in 0..num_cols :
           LET m == ShrinkThenGrow(cell_states, population, live_state,
                                   num_rows, num_cols, r2, c2)
           IN  /\ CellsOf(m.cells) = Positions(num_rows, num_cols)
               /\ \A p \in Positions(num_rows, num_cols) :
                      (p[1] > r2 \/ p[2] > c2) => m.cells[p[1]][p[2]] = 0
               /\ m.population =
                      Cardinality({p \in LiveSet(cell_states, live_state) :
                                      p[1] <= r2 /\ p[2] <= c2})
    /\ LET small == AdjustResult(LoneCornerGrid(live_state), 1, live_state,
                                 4, 4, 2, 2)
           back == ShrinkThenGrow(LoneCornerGrid(live_state), 1, live_state,
                                  4, 4, 2, 2)
       IN  /\ small.cells = ZeroGrid(2, 2)
           /\ small.population = 0
           /\ back.cells = ZeroGrid(4, 4)
           /\ back.population = 0

\* A grid produced by a resize on which some shrink then grow drops a live
\* cell and a fading cell: the round trip gives a different grid with a
\* smaller population.
C13_Witness ==
    /\ lastOp.name = "adjust_grid_size"
    /\ \E p \in CellsOf(cell_states) :
           IsFading(cell_states[p[1]][p[2]], live_state)
    /\ \E r2 \in 0..num_rows, c2 \in 0..num_cols :
           LET m == ShrinkThenGrow(cell_states, population, live_state,
                                   num_rows, num_cols, r2, c2)
           IN  /\ 0 < m.population
               /\ m.population < population
               /\ m.cells # cell_states

\* C14: in every reachable state the stored grid has exactly num_rows rows
\* of exactly num_cols entries each, num_rows and num_cols are not negative,
\* and total_cells = num_rows * num_cols.
C14_GridShape ==
    /\ num_rows >= 0
    /\ num_cols >= 0
    /\ DOMAIN cell_states = 1..num_rows
    /\ \A r \in 1..num_rows : DOMAIN cell_states[r] = 1..num_cols
    /\ total_cells = num_rows * num_cols

\* A resize that changed the grid and left 2 rows of 1 column holding one
\* live cell, trace off.
C14_Witness ==
    /\ lastOp.name = "adjust_grid_size"
    /\ lastOp.changed
    /\ num_rows = 2
    /\ num_cols = 1
    /\ total_cells = 2
    /\ population = 1
    /\ ~trace

\* C15: toggle_wrap negates wrap and changes nothing else: cell_states,
\* population, total_cells, num_rows, num_cols, trace and live_state are
\* the same after the call; two consecutive calls therefore negate wrap
\* twice and give back the state they started from.
C15_ToggleWrap ==
    [][lastOp'.name = "toggle_wrap" =>
          /\ wrap' = ~wrap
          /\ UNCHANGED <<cell_states, population, total_cells, num_rows,
                         num_cols, trace, live_state>>]_vars

\* toggle_wrap has just run on a 2 x 2 grid holding a live and a fading
\* cell, and left wrap off.
C15_Witness ==
    /\ lastOp.name = "toggle_wrap"
    /\ ~wrap
    /\ trace
    /\ num_rows = 2
    /\ num_cols = 2
    /\ population >= 1
    /\ \E p \in CellsOf(cell_states) :
           IsFading(cell_states[p[1]][p[2]], live_state)

\* C16: clear() leaves every cell 0 and population 0, and num_rows,
\* num_cols, total_cells, wrap and trace as they were.
C16_Clear ==
    [][lastOp'.name = "clear" =>
          /\ CellsOf(cell_states') = Positions(num_rows, num_cols)
          /\ \A p \in CellsOf(cell_states') : cell_states'[p[1]][p[2]] = 0
          /\ population' = 0
          /\ UNCHANGED <<num_rows, num_cols, total_cells, wrap, trace>>]_vars

\* clear() has just emptied a 2 x 2 grid that was not empty, with wrap and
\* trace on.
C16_Witness ==
    /\ lastOp.name = "clear"
    /\ lastOp.changed
    /\ wrap
    /\ trace
    /\ num_rows = 2
    /\ num_cols = 2

\* C17: from every reachable state and for every outcome of the random
\* bits, randomize() leaves every cell 0 or live_state and population equal
\* to the number of cells set to live_state; the states reached by
\* randomize() are of that kind.
C17_Randomize ==
    /\ \A bits \in [Coords(num_rows, num_cols) -> BOOLEAN] :
           LET g == RandomizeGrid(cell_states, num_rows, num_cols,
                                  live_state, bits)
           IN  /\ CellsOf(g) = Positions(num_rows, num_cols)
               /\ \A p \in CellsOf(g) : g[p[1]][p[2]] \in {0, live_state}
               /\ RandomizePopulation(num_rows, num_cols, bits)
                      = Cardinality(LiveSet(g, live_state))
    /\ lastOp.name = "randomize" =>
           /\ \A p \in CellsOf(cell_states) :
                  cell_states[p[1]][p[2]] \in {0, live_state}
           /\ population = Cardinality(LiveSet(cell_states, live_state))

\* randomize() has just changed a 2 x 2 grid with trace on into one with
\* two live and two dead cells.
C17_Witness ==
    /\ lastOp.name = "randomize"
    /\ lastOp.changed
    /\ trace
    /\ num_rows = 2
    /\ num_cols = 2
    /\ population = 2

\* C18: a state constructed with (rows, cols, live_state, wrap, trace) has
\* a grid of rows rows of cols zeros, population 0, total_cells = rows *
\* cols, and wrap and trace equal to the arguments.
C18_Construction ==
    \A rows \in 0..MaxRows, cols \in 0..MaxCols,
       ls \in MinLiveState..MaxLiveState, w \in BOOLEAN, t \in BOOLEAN :
        Construct(rows, cols, ls, w, t) =>
            /\ DOMAIN cell_states = 1..rows
            /\ \A r \in 1..rows :
                   /\ DOMAIN cell_states[r] = 1..cols
                   /\ \A c \in 1..cols : cell_states[r][c] = 0
            /\ population = 0
            /\ total_cells = rows * cols
            /\ wrap = w
            /\ trace = t
            /\ num_rows = rows
            /\ num_cols = cols
            /\ live_state = ls

\* A freshly constructed 2 x 1 model with wrap on and trace off.
C18_Witness ==
    /\ lastOp.name = "__init__"
    /\ Construct(2, 1, live_state, TRUE, FALSE)

\* The grid holds a 2 x 2 block of live cells and every other cell is 0.
IsBlock(grid, ls) ==
    \E q \in CellsOf(grid) :
        \A p \in CellsOf(grid) :
            grid[p[1]][p[2]] =
                IF p[1] \in {q[1], q[1] + 1} /\ p[2] \in {q[2], q[2] + 1}
                THEN ls ELSE 0

\* C19: on a grid of at least 4 x 4 cells without wrap, trace on or off, a
\* step() taken when the grid is a 2 x 2 block of live cells, at any
\* position, with every other cell dead leaves the grid as it was and
\* population 4.
C19_BlockIsStill ==
    [][(/\ lastOp'.name = "step"
        /\ ~wrap
        /\ num_rows >= 4
        /\ num_cols >= 4
        /\ IsBlock(cell_states, live_state))
       => (/\ cell_states' = cell_states
           /\ population = 4
           /\ population' = 4)]_vars

\* step() has run on a 5 x 4 grid with trace on whose block sits in the
\* bottom right corner.
C19_Witness ==
    /\ lastOp.name = "step"
    /\ trace
    /\ ~wrap
    /\ num_rows = 5
    /\ num_cols = 4
    /\ IsBlock(cell_states, live_state)
    /\ cell_states[5][4] = live_state
    /\ population = 4

\* The positions of one row and of one column of a 3 x 3 grid.
RowOf(row) == {<<row, c>> : c \in 1..3}
ColOf(col) == {<<r, col>> : r \in 1..3}

\* The grid after two step() calls.
StepTwice(grid, rows, cols, ls, w, t) ==
    StepGrid(StepGrid(grid, rows, cols, ls, w, t), rows, cols, ls, w, t)

\* C20 as stated: on a 3 x 3 grid with wrap, a horizontal blinker (the three
\* cells of one row live, every other cell dead) has the same live cells
\* again after 2 step() calls.
C20_BlinkerReturnsWithWrap ==
    (/\ num_rows = 3
     /\ num_cols = 3
     /\ wrap
     /\ \E row \in 1..3 :
            \A p \in Positions(3, 3) :
                cell_states[p[1]][p[2]] =
                    IF p[1] = row THEN live_state ELSE 0)
    => LiveSet(StepTwice(cell_states, 3, 3, live_state, wrap, trace),
               live_state)
           = LiveSet(cell_states, live_state)

\* C20, amended: on a 3 x 3 grid whose live cells are the three cells of
\* one row, with wrap every cell is live after one step() and none after
\* two; without wrap and with the blinker in the middle row, the live cells
\* are the middle column after one step() and the middle row again after
\* two.
C20_BlinkerOn3x3 ==
    \A row \in 1..3 :
        (/\ num_rows = 3
         /\ num_cols = 3
         /\ LiveSet(cell_states, live_state) = RowOf(row))
        => LET g1 == StepGrid(cell_states, 3, 3, live_state, wrap, trace)
               g2 == StepTwice(cell_states, 3, 3, live_state, wrap, trace)
           IN  /\ wrap => /\ LiveSet(g1, live_state) = Positions(3, 3)
                          /\ LiveSet(g2, live_state) = {}
               /\ (~wrap /\ row = 2) =>
                      /\ LiveSet(g1, live_state) = ColOf(2)
                      /\ LiveSet(g2, live_state) = RowOf(2)

\* step() has brought the middle-row blinker back on a 3 x 3 grid without
\* wrap, trace on: the two cells that were live one generation ago hold
\* live_state - 1.
C20_Witness ==
    /\ lastOp.name = "step"
    /\ num_rows = 3
    /\ num_cols = 3
    /\ ~wrap
    /\ trace
    /\ live_state >= 3
    /\ LiveSet(cell_states, live_state) = RowOf(2)
    /\ cell_states[1][2] = live_state - 1
    /\ cell_states[3][2] = live_state - 1

(***************************************************************************)
(* C21..C30                                                                *)
(***************************************************************************)

\* Some coordinate of the list lies outside [0, rows) x [0, cols).
HasOutOfRange(cells, rows, cols) ==
    \E i \in 1..Len(cells) :
        ~(/\ 0 <= cells[i][1] /\ cells[i][1] < rows
          /\ 0 <= cells[i][2] /\ cells[i][2] < cols)

\* C21: from every reachable grid adjust_grid_size(0, 0) gives the empty
\* grid with population 0; on a 0 x 0 grid total_cells is 0, step, clear,
\* randomize and toggle_trace change nothing, and the handlers that call
\* them raise nothing; and whenever total_cells is 0 the population label
\* is written with 0.0 percent, never by a division.
C21_ZeroByZero ==
    /\ LET m == AdjustResult(cell_states, population, live_state,
                             num_rows, num_cols, 0, 0)
       IN  /\ m.cells = ZeroGrid(0, 0)
           /\ m.population = 0
    /\ (num_rows = 0 /\ num_cols = 0) =>
           /\ cell_states = ZeroGrid(0, 0)
           /\ population = 0
           /\ total_cells = 0
           /\ StepGrid(cell_states, num_rows, num_cols, live_state, wrap,
                       trace) = cell_states
           /\ StepPopulation(cell_states, num_rows, num_cols, live_state,
                             wrap, trace) = 0
           /\ ClearGrid(cell_states, num_rows, num_cols) = cell_states
           /\ \A bits \in [Coords(num_rows, num_cols) -> BOOLEAN] :
                  /\ RandomizeGrid(cell_states, num_rows, num_cols,
                                   live_state, bits) = cell_states
                  /\ RandomizePopulation(num_rows, num_cols, bits) = 0
           /\ ToggleTraceGrid(cell_states, num_rows, num_cols, live_state,
                              ~trace) = cell_states
           /\ handler.name \in {"step", "single_step", "clear", "randomize",
                                "toggle_trace"} =>
                  handler.raised = "none"
           /\ lastOp.name \in {"step", "clear", "randomize", "toggle_trace"} =>
                  ~lastOp.changed
    /\ handler.raised # "ZeroDivisionError"
    /\ total_cells = 0 =>
           /\ PopulationLabel(population, total_cells).raised = "none"
           /\ PopulationLabel(population, total_cells).tenths = 0
           /\ view.population_value =
                  [population |-> 0, total_cells |-> 0, tenths |-> 0]

\* A single step has run on the 0 x 0 grid that a cell-size change or a
\* canvas resize left: the label reads 0/0 (0.0%).
C21_Witness ==
    /\ num_rows = 0
    /\ num_cols = 0
    /\ handler.name = "single_step"
    /\ lastOp.name = "step"
    /\ controller.generation = 1
    /\ view.population_value =
           [population |-> 0, total_cells |-> 0, tenths |-> 0]

\* C22 as stated: no Model whose live_state is 0 or 1 reaches a state in
\* which step() has run with trace on.
C22_LowLiveStateRejected ==
    ~(live_state <= 1 /\ trace /\ lastOp.name = "step")

\* C23 as stated: from every reachable state, set_cells_state with a list
\* that holds a coordinate outside [0, rows) x [0, cols) raises and leaves
\* every cell and population as they were.
C23_OutOfRangeFailsFast ==
    \A cells \in AnyCoordLists, state \in BOOLEAN :
        HasOutOfRange(cells, num_rows, num_cols) =>
            LET m == SetCellsAnyResult(cell_states, population, live_state,
                                       cells, state)
            IN  /\ m.raised
                /\ m.cells = cell_states
                /\ m.population = population

\* C24 as stated: every cell holding a value v with 0 < v < live_state was
\* last equal to live_state exactly live_state - v step() calls ago (age
\* counts those calls and stops counting at live_state).
C24_FadingAgeExact ==
    \A p \in CellsOf(cell_states) :
        IsFading(cell_states[p[1]][p[2]], live_state)
            => age[p[1]][p[2]] = live_state - cell_states[p[1]][p[2]]

\* C24, amended: a cell holding v with 2 <= v < live_state was last equal to
\* live_state exactly live_state - v step() calls ago, and a cell holding 1
\* (with live_state > 1) at least live_state - 1 step() calls ago.
C24_FadingAge ==
    \A p \in CellsOf(cell_states) :
        LET v == cell_states[p[1]][p[2]]
            a == age[p[1]][p[2]]
        IN  /\ (2 <= v /\ v < live_state) => a = live_state - v
            /\ (v = 1 /\ v < live_state) => a >= live_state - 1

\* With live_state 4 one cell died two step() calls ago and holds 2 while
\* another has been at the floor value 1 for longer than 3 calls.
C24_Witness ==
    /\ lastOp.name = "step"
    /\ live_state = 4
    /\ \E p, q \in CellsOf(cell_states) :
           /\ cell_states[p[1]][p[2]] = 2
           /\ age[p[1]][p[2]] = 2
           /\ cell_states[q[1]][q[2]] = 1
           /\ age[q[1]][q[2]] = live_state

\* The count at (row, col) does not include (row, col) and includes every
\* other cell at most once: it is 0 when (row, col) is the only live cell
\* and never exceeds the number of other live cells.
CountsOthersOnce(grid, rows, cols, ls, w) ==
    \A p \in Positions(rows, cols) :
        LET n == count_live_neighbors(grid, rows, cols, ls, w,
                                      p[1] - 1, p[2] - 1)
        IN  /\ LiveSet(grid, ls) = {p} => n = 0
            /\ n <= Cardinality(LiveSet(grid, ls) \ {p})

\* The state last drawn into each Cell of the view, as a grid.
Rendered(v) ==
    [r \in DOMAIN v.cells |-> [c \in DOMAIN v.cells[r] |-> v.cells[r][c].state]]

\* The calls on the model that change it.
Mutators ==
    {"model.step", "model.set_cells_state", "model.randomize", "model.clear",
     "model.adjust_grid_size", "model.toggle_wrap", "model.toggle_trace"}

\* The calls a handler made after its i-th.
CallsAfter(i) == SubSeq(handler.calls, i + 1, Len(handler.calls))

\* Among calls, get_cell_states() is read and handed to update_all_cells.
ReadsAndRenders(calls) ==
    \E j \in DOMAIN calls :
        /\ calls[j] = "model.get_cell_states"
        /\ j + 1 \in DOMAIN calls
        /\ calls[j + 1] = "view.update_all_cells"

\* C25 as stated: every call of a handler to a Model mutator is followed, in
\* the same handler, by a get_cell_states() read.
C25_MutatorThenRead ==
    \A i \in DOMAIN handler.calls :
        handler.calls[i] \in Mutators =>
            \E j \in DOMAIN CallsAfter(i) :
                CallsAfter(i)[j] = "model.get_cell_states"

\* C25, amended: step, randomize and clear, and toggle_trace when it turns
\* trace off, are followed in the same handler by a get_cell_states() read
\* that update_all_cells draws, after which the view shows the model's
\* cells; set_cells_state is followed by update_given_cells, adjust_grid_size
\* by the view's own resize, and toggle_wrap, like toggle_trace turning
\* trace on, by no read.
C25_MutatorThenRender ==
    \A i \in DOMAIN handler.calls :
        LET call == handler.calls[i]
            rest == CallsAfter(i)
            read == \E j \in DOMAIN rest : rest[j] = "model.get_cell_states"
        IN  /\ call \in {"model.step", "model.randomize", "model.clear"} =>
                   /\ ReadsAndRenders(rest)
                   /\ Rendered(view) = cell_states
            /\ call = "model.toggle_trace" =>
                   /\ ReadsAndRenders(rest) <=> ~trace
                   /\ read <=> ~trace
                   /\ ~trace => Rendered(view) = cell_states
            /\ call = "model.set_cells_state" =>
                   /\ rest # <<>>
                   /\ rest[1] = "view.update_given_cells"
                   /\ ~read
            /\ call = "model.adjust_grid_size" =>
                   /\ rest # <<>>
                   /\ rest[1] \in {"view.adjust_grid_size",
                                   "view.adjust_cell_size"}
                   /\ ~read
            /\ call = "model.toggle_wrap" => ~read

\* A single step has run: it called Model.step, which changed the grid,
\* and drew what get_cell_states gave.
C25_Witness ==
    /\ handler.name = "single_step"
    /\ handler.calls = <<"model.step", "model.get_cell_states",
                         "view.update_all_cells">>
    /\ lastOp.name = "step"
    /\ lastOp.changed

\* C26 as stated: on every grid of at least 1 x 1, with wrap on or off,
\* _count_live_neighbors never counts the cell itself and counts each other
\* cell at most once.
C26_NeverCountsSelf ==
    (num_rows >= 1 /\ num_cols >= 1)
        => CountsOthersOnce(cell_states, num_rows, num_cols, live_state, wrap)

\* C26, amended: the same on every grid of at least 1 x 1 without wrap and,
\* with wrap, on every grid of at least 3 x 3; with wrap a live cell of a
\* 1 x 1 grid counts itself 8 times, and on a grid with a dimension of 1 or
\* 2 that holds only live cells every cell counts 8, more than there are
\* other cells.
C26_CountsOthersOnce ==
    /\ (num_rows >= 1 /\ num_cols >= 1
        /\ (~wrap \/ (num_rows >= 3 /\ num_cols >= 3)))
           => CountsOthersOnce(cell_states, num_rows, num_cols, live_state,
                               wrap)
    /\ (wrap /\ num_rows >= 1 /\ num_cols >= 1
        /\ (num_rows <= 2 \/ num_cols <= 2)
        /\ LiveSet(cell_states, live_state)
               = Positions(num_rows, num_cols))
           => \A p \in Positions(num_rows, num_cols) :
                  count_live_neighbors(cell_states, num_rows, num_cols,
                                       live_state, wrap, p[1] - 1, p[2] - 1)
                      = 8

\* step() has filled a wrapped 3 x 3 grid: every cell counts its 8
\* neighbours, the 8 other cells, once each.
C26_Witness ==
    /\ lastOp.name = "step"
    /\ wrap
    /\ num_rows = 3
    /\ num_cols = 3
    /\ population = 9

\* C27: step() leaves num_rows, num_cols, total_cells, live_state, wrap and
\* trace as they were, on every grid, grids with zero rows or zero columns
\* included.
C27_StepFrame ==
    [][lastOp'.name = "step" =>
          UNCHANGED <<num_rows, num_cols, total_cells, live_state, wrap,
                      trace>>]_vars

\* step() has changed a 2 x 2 grid whose population is now 0 while
\* total_cells is 4.
C27_Witness ==
    /\ lastOp.name = "step"
    /\ lastOp.changed
    /\ num_rows = 2
    /\ num_cols = 2
    /\ total_cells = 4
    /\ population = 0

\* C28: when a controller event handler has returned, the view has the
\* model's num_rows and num_cols, it holds one Cell for each cell of the
\* model, and the state last drawn into each Cell is the model's value for
\* that cell.
C28_ViewShowsModel ==
    handler.raised = "none" =>
        /\ view.num_rows = num_rows
        /\ view.num_cols = num_cols
        /\ DOMAIN view.cells = DOMAIN cell_states
        /\ CellsOf(Rendered(view)) = Positions(num_rows, num_cols)
        /\ \A pos \in Positions(num_rows, num_cols) :
               Rendered(view)[pos[1]][pos[2]] = cell_states[pos[1]][pos[2]]

\* A drag with the left button has returned after setting a cell of a grid
\* that holds a fading cell as well: both are drawn as the model has them.
C28_Witness ==
    /\ handler.name = "_mouse_motion_handler"
    /\ handler.raised = "none"
    /\ lastOp.name = "set_cells_state"
    /\ lastOp.changed
    /\ population > 0
    /\ \E pos \in Positions(num_rows, num_cols) :
           /\ cell_states[pos[1]][pos[2]] \notin {0, live_state}
           /\ view.cells[pos[1]][pos[2]].state = cell_states[pos[1]][pos[2]]

\* (row + d_row, col + d_col) for each pixel of figure, in order.
Placed(row, col, figure) ==
    [i \in DOMAIN figure |-> <<row + figure[i][1], col + figure[i][2]>>]

\* The elements of seq that lie in Coords(rows, cols), in order.
RECURSIVE InRangeOnly(_, _, _)
InRangeOnly(seq, rows, cols) ==
    IF seq = <<>> THEN <<>>
    ELSE IF Head(seq) \in Coords(rows, cols)
    THEN <<Head(seq)>> \o InRangeOnly(Tail(seq), rows, cols)
    ELSE InRangeOnly(Tail(seq), rows, cols)

\* C29: the controller's num_rows and num_cols are the model's, and for
\* every shape and every cursor cell inside the grid, with wrap on or off,
\* every coordinate _get_affected_pixels returns lies in
\* [0, num_rows) x [0, num_cols): without wrap the list is the shape's
\* pixels that fall inside the grid, with wrap it is every pixel, those
\* outside reduced modulo the dimensions; and no set_cells_state call of a
\* click has raised IndexError.
C29_AffectedInRange ==
    /\ controller.num_rows = num_rows
    /\ controller.num_cols = num_cols
    /\ controller.wrap = wrap
    /\ lastOp.name # "set_cells_state: IndexError"
    /\ \A name \in DOMAIN shapes, cell \in Coords(num_rows, num_cols) :
           LET figure == shapes[name]
               affected == get_affected_pixels(controller, cell[1], cell[2],
                                               figure)
               placed == Placed(cell[1], cell[2], figure)
           IN  /\ \A i \in DOMAIN affected :
                      affected[i] \in Coords(num_rows, num_cols)
               /\ ~wrap => affected = InRangeOnly(placed, num_rows, num_cols)
               /\ wrap =>
                      /\ Len(affected) = Len(figure)
                      /\ \A i \in DOMAIN figure :
                             affected[i] = <<placed[i][1] % num_rows,
                                             placed[i][2] % num_cols>>

\* A click has set the four cells of a wrapped 2 x 2 grid with the
\* "Glider gun" shape, whose 36 pixels reach row 8 and column 35.
C29_Witness ==
    /\ handler.name = "_mouse_click_handler"
    /\ lastOp.name = "set_cells_state"
    /\ lastOp.changed
    /\ controller.shape = "Glider gun"
    /\ wrap
    /\ num_rows = 2
    /\ num_cols = 2
    /\ population = 4

\* C30 as stated: in every reachable state every coordinate stored in
\* highlighted_cells indexes a Cell of the view's grid, and no handler has
\* ended with the IndexError or AttributeError of
\* _unhighlight_highlighted_cells.
C30_HighlightedCellsExist ==
    /\ \A i \in DOMAIN controller.highlighted_cells :
           /\ controller.highlighted_cells[i] \in
                  Coords(view.num_rows, view.num_cols)
           /\ <<controller.highlighted_cells[i][1] + 1,
                controller.highlighted_cells[i][2] + 1>> \in CellsOf(view.cells)
    /\ handler.raised = "none"

(***************************************************************************)
(* C31..C35                                                                *)
(***************************************************************************)

\* C32: in every reachable state, that is after every event handler, whether
\* it returned or raised, the controller's wrap, trace, num_rows and
\* num_cols are the model's.
C32_MirrorsMatch ==
    /\ controller.wrap = wrap
    /\ controller.trace = trace
    /\ controller.num_rows = num_rows
    /\ controller.num_cols = num_cols

\* After wrap and trace were both toggled off and the grid was shrunk to one
\* row, a canvas resize has returned with the mirrors in step.
C32_Witness ==
    /\ handler.name = "adjust_grid_size"
    /\ ~wrap
    /\ ~trace
    /\ ~controller.wrap
    /\ ~controller.trace
    /\ num_rows = 1
    /\ controller.num_rows = 1
    /\ controller.cell_size = MaxCellSize

\* C33: in every reachable state, that is between any two handlers of any
\* interleaving of timer ticks, play/pause toggles and single steps, exactly
\* one timer callback for Controller.step is pending.
C33_OnePendingCallback == controller.pending = 1

\* A single step has run while the game was running, after the timer and
\* single steps had advanced the game to generation TimerMaxGeneration.
C33_Witness ==
    /\ handler.name = "single_step"
    /\ controller.running
    /\ controller.generation = TimerMaxGeneration
    /\ controller.pending = 1

\* The number of calls of Model.step() among calls.
StepCalls(calls) == Cardinality({i \in DOMAIN calls : calls[i] = "model.step"})

\* C34: a timer tick taken while running is true calls Model.step() exactly
\* once: the cells and population are those of one generation later and
\* generation is one more; a timer tick taken while running is false calls
\* nothing and leaves the model, the controller and the view as they were;
\* and while running is false a handler that calls Model.step() is a single
\* step.
C34_TickStepsIffRunning ==
    [][/\ handler'.name = "step" =>
              IF controller.running
              THEN /\ StepCalls(handler'.calls) = 1
                   /\ handler'.steps = handler.steps + 1
                   /\ lastOp'.name = "step"
                   /\ cell_states' = StepGrid(cell_states, num_rows, num_cols,
                                              live_state, wrap, trace)
                   /\ population' = StepPopulation(cell_states, num_rows,
                                        num_cols, live_state, wrap, trace)
                   /\ controller'.generation = controller.generation + 1
              ELSE /\ handler'.calls = <<>>
                   /\ UNCHANGED <<model_vars, controller, view>>
       /\ (~controller.running /\ StepCalls(handler'.calls) > 0) =>
              /\ handler'.name = "single_step"
              /\ StepCalls(handler'.calls) = 1
              /\ controller'.generation = controller.generation + 1]_vars

\* The timer has ticked while the game was paused at generation 1 with a
\* live cell on the grid, which is still there.
C34_Witness ==
    /\ handler.name = "step"
    /\ handler.calls = <<>>
    /\ ~controller.running
    /\ controller.generation = 1
    /\ population = 1

\* C35: in every reachable state generation is the number of Model.step()
\* calls made since the last Model.clear() or Model.randomize() call, or
\* since the construction if there was none; so a handler that makes none of
\* these calls (a click, a drag, a resize, a wrap or trace toggle) leaves it
\* as it was.
C35_GenerationCountsSteps ==
    /\ controller.generation = handler.steps
    /\ view.generation_value = controller.generation

\* A click has returned at generation TimerMaxGeneration, which the steps
\* before it counted.
C35_Witness ==
    /\ handler.name = "_mouse_click_handler"
    /\ lastOp.name = "set_cells_state"
    /\ controller.generation = TimerMaxGeneration
    /\ handler.steps = TimerMaxGeneration

\* C31 as stated: when _clear_hover_state has returned, that is when
\* _unhighlight_highlighted_cells has undone the last _highlight_cells,
\* every cell of the view is unhighlighted and shows color_map[state] for
\* the state it was last set to, unadjusted, whatever shape was highlighted
\* and also when the shape was wrapped onto a grid smaller than itself.
C31_HighlightRestores ==
    (handler.name = "_clear_hover_state" /\ handler.raised = "none") =>
        \A r \in DOMAIN view.cells : \A c \in DOMAIN view.cells[r] :
            /\ ~view.cells[r][c].highlighted
            /\ view.cells[r][c].color = color_map(view.cells[r][c].state)

====
